---- MODULE Spec2Model ----
(***************************************************************************)
(* Billing-event reconciliation and referral credit ledger of the account  *)
(* management center.  The committed store is the state; every handler is  *)
(* one database transaction.  Amounts are in cents (Numeric(10,2) * 100).  *)
(***************************************************************************)
EXTENDS Integers, Sequences, FiniteSets, TLC

\* ------------------------------------------------------------------ domains
NULL == "NULL"

Users == {"u1", "u2"}
CustIds == {"cus_1"}
TxnIds == {"otid_1"}

StripeTypes == {"invoice.payment_succeeded", "customer.subscription.deleted", "charge.refunded"}
NotificationTypes ==
  {"DID_RENEW", "SUBSCRIBED", "EXPIRED", "REFUND", "DID_CHANGE_RENEWAL_STATUS", "TEST"}

\* The failure point of a transaction: 0 = no failure, k = the k-th UPDATE
\* was executed and then the session raised.
FailPoints == 0 .. 3

\* ------------------------------------------------------------------ state
VARIABLES
  users,        \* user_level_en: user_id -> row
  quotaReq,     \* receipt_usage_quota_request_en: user_id -> month_limit
  quotaRec,     \* receipt_usage_quota_receipt_en: user_id -> month_limit
  codes,        \* referral_codes: set of rows
  records,      \* referral_records: sequence of rows, id = index
  credits,      \* user_credits: user_id -> row
  ledger,       \* credit_transactions: sequence of rows in creation order
  invoiceItems, \* Stripe invoice items created by the deduction service
  sess,         \* per-request session state of the handlers in flight
  last          \* the response of the handler that completed last

billVars == <<users, quotaReq, quotaRec>>
refVars == <<codes, records, credits, ledger>>
vars == <<users, quotaReq, quotaRec, codes, records, credits, ledger, invoiceItems, sess, last>>

\* The three billing relations as one value.
Billing == [users |-> users, quotaReq |-> quotaReq, quotaRec |-> quotaRec]

Resp(op, user, kind, found, outcome, reason) ==
  [op |-> op, user |-> user, kind |-> kind, found |-> found,
   outcome |-> outcome, reason |-> reason, amount |-> 0, balance |-> 0]

\* A 4xx answer and a 5xx answer (or a raise out of the handler).
Rejected(op, reason) == Resp(op, NULL, NULL, FALSE, "rejected", reason)

Raised(op, reason) == Resp(op, NULL, NULL, FALSE, "error", reason)

\* The session raised after one of its UPDATEs; the handler rolled back.
Failed(op, user, found) == Resp(op, user, NULL, found, "error", "raised")

\* ------------------------------------------------------------------ helpers
\* core/utils.py: sha256 of the lower-cased email and the salt; modelled as an
\* injective tag of the lower-cased email.
Lower(e) ==
  CASE e = "U1@X.IO" -> "u1@x.io"
    [] OTHER -> e

generate_email_hash(email) == <<"sha256", Lower(email)>>

\* auth.users: the email of each identity.
EmailOf(u) ==
  CASE u = "u1" -> "u1@x.io"
    [] u = "u2" -> "u2@x.io"
    [] OTHER -> "u3@x.io"

Emails == {"u1@x.io", "U1@X.IO", "u2@x.io", "nobody@x.io"}

\* The email_hash column written at sync time.
EmailHashOf(u) == generate_email_hash(EmailOf(u))

\* Fault variant: a rollback that keeps the session's writes.
RollbackKeepsWrites(committed, session) == session

\* db.rollback(): the session's pending writes are discarded.
Rollback(committed, session) == committed

\* ------------------------------------------------------------------ new users
\* auth_new_user/services.py: every auth user without a user_level_en row gets
\* the three rows, status "free" and both limits 0, in one commit.
do_sync_new_users(B, rows) ==
  [users |-> [u \in DOMAIN B.users \cup rows |->
                IF u \in rows
                  THEN [subscription_status |-> "free",
                        stripe_customer_id |-> NULL,
                        apple_customer_id |-> NULL]
                  ELSE B.users[u]],
   quotaReq |-> [u \in DOMAIN B.quotaReq \cup rows |->
                   IF u \in rows THEN 0 ELSE B.quotaReq[u]],
   quotaRec |-> [u \in DOMAIN B.quotaRec \cup rows |->
                   IF u \in rows THEN 0 ELSE B.quotaRec[u]]]

\* ------------------------------------------------------------------ Stripe webhook-handle
\* Fault variant: a limit write that accumulates.
WriteLimitAdd(old, new) == old + new

\* .values(month_limit=request_limit)
WriteLimit(old, new) == new

request_limit(level) == IF level = "pro" THEN 100 ELSE 5

\* The session after the first n statements of update_user_subscription.
update_user_subscription_stmts(B, user_id, level, stripe_customer_id, n) ==
  [users |-> [u \in DOMAIN B.users |->
                IF n >= 1 /\ u = user_id
                  THEN [B.users[u] EXCEPT !.subscription_status = level,
                                          !.stripe_customer_id = stripe_customer_id]
                  ELSE B.users[u]],
   quotaReq |-> [u \in DOMAIN B.quotaReq |->
                   IF n >= 2 /\ u = user_id
                     THEN WriteLimit(B.quotaReq[u], request_limit(level))
                     ELSE B.quotaReq[u]],
   quotaRec |-> [u \in DOMAIN B.quotaRec |->
                   IF n >= 3 /\ u = user_id
                     THEN WriteLimit(B.quotaRec[u], request_limit(level))
                     ELSE B.quotaRec[u]]]

update_user_subscription(B, user_id, level, stripe_customer_id, fail) ==
  IF fail = 0
    THEN update_user_subscription_stmts(B, user_id, level, stripe_customer_id, 3)
    ELSE Rollback(B, update_user_subscription_stmts(B, user_id, level, stripe_customer_id, fail))

\* Fault variant: the updates run before the signature is looked at.
stripe_webhook_unsigned(B, sig, user_id, event_type, cust, fail) ==
  IF user_id = NULL THEN B
  ELSE IF event_type = "invoice.payment_succeeded"
    THEN update_user_subscription(B, user_id, "pro", cust, fail)
  ELSE IF event_type = "customer.subscription.deleted"
    THEN update_user_subscription(B, user_id, "free", cust, fail)
  ELSE B

\* The committed billing relations after POST /stripe/webhook-handle.
stripe_webhook_effect(B, sig, user_id, event_type, cust, fail) ==
  IF sig # "valid" \/ user_id = NULL THEN B
  ELSE IF event_type = "invoice.payment_succeeded"
    THEN update_user_subscription(B, user_id, "pro", cust, fail)
  ELSE IF event_type = "customer.subscription.deleted"
    THEN update_user_subscription(B, user_id, "free", cust, fail)
  ELSE B

stripe_webhook_resp(B, sig, user_id, event_type, fail) ==
  IF sig = "missing" THEN Rejected("stripe_webhook", "Missing signature")
  ELSE IF sig # "valid" THEN Rejected("stripe_webhook", "Invalid signature")
  ELSE IF user_id = NULL THEN Rejected("stripe_webhook", "Missing user_id in metadata")
  ELSE IF fail # 0 /\ event_type \in {"invoice.payment_succeeded", "customer.subscription.deleted"}
    THEN Failed("stripe_webhook", user_id, user_id \in DOMAIN B.users)
  ELSE Resp("stripe_webhook", user_id, event_type, user_id \in DOMAIN B.users, "success", "")

\* ------------------------------------------------------------------ Stripe paid-manager
\* The rows of the three relations are matched by their email_hash column.
HashRows(B, email_hash) == {u \in DOMAIN B.users : EmailHashOf(u) = email_hash}

\* The session after the first n statements of upgrade_user_to_pro.
upgrade_user_to_pro(B, email_hash, stripe_customer_id, n) ==
  [users |-> [u \in DOMAIN B.users |->
                IF n >= 1 /\ EmailHashOf(u) = email_hash
                  THEN [B.users[u] EXCEPT !.subscription_status = "Pro",
                                          !.stripe_customer_id = stripe_customer_id]
                  ELSE B.users[u]],
   quotaReq |-> [u \in DOMAIN B.quotaReq |->
                   IF n >= 2 /\ EmailHashOf(u) = email_hash THEN 100 ELSE B.quotaReq[u]],
   quotaRec |-> [u \in DOMAIN B.quotaRec |->
                   IF n >= 3 /\ EmailHashOf(u) = email_hash THEN 100 ELSE B.quotaRec[u]]]

\* The session after the first n statements of downgrade_user_to_free.
downgrade_user_to_free(B, email_hash, n) ==
  [users |-> [u \in DOMAIN B.users |->
                IF n >= 1 /\ EmailHashOf(u) = email_hash
                  THEN [B.users[u] EXCEPT !.subscription_status = "Free"]
                  ELSE B.users[u]],
   quotaReq |-> [u \in DOMAIN B.quotaReq |->
                   IF n >= 2 /\ EmailHashOf(u) = email_hash THEN 0 ELSE B.quotaReq[u]],
   quotaRec |-> [u \in DOMAIN B.quotaRec |->
                   IF n >= 3 /\ EmailHashOf(u) = email_hash THEN 0 ELSE B.quotaRec[u]]]

\* The committed billing relations after POST /stripe/paid-manager.
stripe_paid_process_effect(B, customer_email, event_type, cust, fail) ==
  IF customer_email = NULL THEN B
  ELSE IF event_type = "invoice.payment_succeeded"
    THEN IF fail = 0
           THEN upgrade_user_to_pro(B, generate_email_hash(customer_email), cust, 3)
           ELSE Rollback(B, upgrade_user_to_pro(B, generate_email_hash(customer_email), cust, fail))
  ELSE IF event_type = "customer.subscription.deleted"
    THEN IF fail = 0
           THEN downgrade_user_to_free(B, generate_email_hash(customer_email), 3)
           ELSE Rollback(B, downgrade_user_to_free(B, generate_email_hash(customer_email), fail))
  ELSE B

\* The user a paid-manager event resolves to (NULL when no row matches).
PaidTarget(B, customer_email) ==
  IF customer_email # NULL /\ HashRows(B, generate_email_hash(customer_email)) # {}
    THEN CHOOSE u \in HashRows(B, generate_email_hash(customer_email)) : TRUE
    ELSE NULL

stripe_paid_process_resp(B, customer_email, event_type, fail) ==
  IF customer_email = NULL THEN Rejected("stripe_paid", "customer_email is missing")
  ELSE IF event_type \notin {"invoice.payment_succeeded", "customer.subscription.deleted"}
    THEN Resp("stripe_paid", PaidTarget(B, customer_email), event_type,
              PaidTarget(B, customer_email) # NULL, "ignored", "Event type not handled")
  ELSE IF fail # 0
    THEN Failed("stripe_paid", PaidTarget(B, customer_email), PaidTarget(B, customer_email) # NULL)
  ELSE Resp("stripe_paid", PaidTarget(B, customer_email), event_type,
            PaidTarget(B, customer_email) # NULL, "success", "")

\* ------------------------------------------------------------------ Apple notification
\* A compact JWS: its number of dot-separated parts, whether the middle part
\* base64url-decodes to a JSON document, and that document.
Jws(nparts, decodable, doc) == [nparts |-> nparts, decodable |-> decodable, doc |-> doc]

Malformed == [malformed |-> TRUE]

\* What json.loads returns for a JSON text that is not an object (a number, a
\* string, a list, null): a value without .get.
JsonScalar == [scalar |-> TRUE]

decode_apple_jws(token) ==
  IF token.nparts # 3 \/ ~token.decodable THEN Malformed ELSE token.doc

determine_subscription_status(notification_type) ==
  IF notification_type \in {"DID_RENEW", "SUBSCRIBED"} THEN "Pro"
  ELSE IF notification_type = "EXPIRED" THEN "Expired"
  ELSE IF notification_type = "REFUND" THEN "Refunded"
  ELSE IF notification_type = "DID_CHANGE_RENEWAL_STATUS" THEN "Pro"
  ELSE "Pro"

\* select(UserLevelEn).where(apple_customer_id == original_transaction_id)
AppleRows(B, otid) == {u \in DOMAIN B.users : B.users[u].apple_customer_id = otid}

\* The session after the first n statements of apple_webhook, for the found user.
apple_webhook_stmts(B, user_id, otid, new_status, n) ==
  [users |-> [u \in DOMAIN B.users |->
                IF n >= 1 /\ B.users[u].apple_customer_id = otid
                  THEN [B.users[u] EXCEPT !.subscription_status = new_status]
                  ELSE B.users[u]],
   quotaReq |-> [u \in DOMAIN B.quotaReq |->
                   IF n >= 2 /\ new_status = "Pro" /\ u = user_id THEN 100 ELSE B.quotaReq[u]],
   quotaRec |-> [u \in DOMAIN B.quotaRec |->
                   IF n >= 3 /\ new_status = "Pro" /\ u = user_id THEN 100 ELSE B.quotaRec[u]]]

\* What the handler extracts from the signed payload: "malformed",
\* "not_object" (.get on a decoded value that is no dict raises
\* AttributeError), "no_info", "no_otid", or "ok" with the notification type
\* and original transaction id.
AppleParse(signedPayload) ==
  LET outer == decode_apple_jws(signedPayload) IN
  IF outer = Malformed THEN [st |-> "malformed", ntype |-> NULL, otid |-> NULL]
  ELSE IF outer = JsonScalar THEN [st |-> "not_object", ntype |-> NULL, otid |-> NULL]
  ELSE IF ~outer.hasInfo THEN [st |-> "no_info", ntype |-> outer.notificationType, otid |-> NULL]
  ELSE LET tx == decode_apple_jws(outer.info) IN
       IF tx = Malformed THEN [st |-> "malformed", ntype |-> outer.notificationType, otid |-> NULL]
       ELSE IF tx = JsonScalar
         THEN [st |-> "not_object", ntype |-> outer.notificationType, otid |-> NULL]
       ELSE IF tx.originalTransactionId = NULL
         THEN [st |-> "no_otid", ntype |-> outer.notificationType, otid |-> NULL]
       ELSE [st |-> "ok", ntype |-> outer.notificationType, otid |-> tx.originalTransactionId]

\* The committed billing relations after POST /iap/notification.
apple_webhook_effect(B, signedPayload, fail) ==
  LET p == AppleParse(signedPayload) IN
  IF p.st # "ok" THEN B
  ELSE IF Cardinality(AppleRows(B, p.otid)) # 1 THEN B
  ELSE LET user_id == CHOOSE u \in AppleRows(B, p.otid) : TRUE
           new_status == determine_subscription_status(p.ntype) IN
       IF fail = 0
         THEN apple_webhook_stmts(B, user_id, p.otid, new_status, 3)
         ELSE Rollback(B, apple_webhook_stmts(B, user_id, p.otid, new_status, fail))

apple_webhook_resp(B, signedPayload, fail) ==
  LET p == AppleParse(signedPayload) IN
  IF p.st = "malformed" THEN Rejected("apple_webhook", "Invalid JWS token")
  ELSE IF p.st = "not_object" THEN Raised("apple_webhook", "AttributeError")
  ELSE IF p.st = "no_info" THEN Rejected("apple_webhook", "Missing transaction info")
  ELSE IF p.st = "no_otid" THEN Rejected("apple_webhook", "Missing originalTransactionId")
  ELSE IF AppleRows(B, p.otid) = {}
    THEN Resp("apple_webhook", NULL, NULL, FALSE, "ignored", "user_not_found")
  ELSE IF Cardinality(AppleRows(B, p.otid)) > 1 THEN Raised("apple_webhook", "MultipleResultsFound")
  ELSE IF fail # 0 THEN Failed("apple_webhook", CHOOSE u \in AppleRows(B, p.otid) : TRUE, TRUE)
  ELSE Resp("apple_webhook", CHOOSE u \in AppleRows(B, p.otid) : TRUE, p.ntype, TRUE, "success", "")

NotificationDoc(ntype, hasInfo, infoParts, infoDecodable, otid) ==
  [notificationType |-> ntype, hasInfo |-> hasInfo,
   info |-> Jws(infoParts, infoDecodable, [originalTransactionId |-> otid])]

\* The signed payloads delivered: every notification type for every known
\* transaction id, and the ill-formed ones.
GoodPayloads ==
  {Jws(3, TRUE, NotificationDoc(t, TRUE, 3, TRUE, o)) : t \in NotificationTypes, o \in TxnIds}

BadPayloads ==
  {Jws(2, TRUE, NotificationDoc("DID_RENEW", TRUE, 3, TRUE, "otid_1")),
   Jws(4, TRUE, NotificationDoc("EXPIRED", TRUE, 3, TRUE, "otid_1")),
   Jws(3, FALSE, NotificationDoc("DID_RENEW", TRUE, 3, TRUE, "otid_1")),
   Jws(3, TRUE, NotificationDoc("DID_RENEW", FALSE, 3, TRUE, "otid_1")),
   Jws(3, TRUE, NotificationDoc("EXPIRED", TRUE, 2, TRUE, "otid_1")),
   Jws(3, TRUE, NotificationDoc("EXPIRED", TRUE, 3, FALSE, "otid_1")),
   Jws(3, TRUE, NotificationDoc("REFUND", TRUE, 3, TRUE, NULL)),
   Jws(3, TRUE, JsonScalar),
   Jws(3, TRUE, [notificationType |-> "EXPIRED", hasInfo |-> TRUE,
                 info |-> Jws(3, TRUE, JsonScalar)])}

\* ------------------------------------------------------------------ Apple receipt verification
\* A verifyReceipt answer: its status, and the original_transaction_id of the
\* last entry of latest_receipt_info (hasInfo = FALSE: the list is empty).
AppleAnswer(status, hasInfo, otid) == [status |-> status, hasInfo |-> hasInfo, otid |-> otid]

\* Fault variant: the sandbox endpoint is asked after any production failure.
verify_retry_any_failure(production, sandbox) ==
  IF production.status # 0 THEN sandbox ELSE production

\* The production endpoint is asked first; status 21007 sends the receipt to
\* the sandbox endpoint, whose answer is returned.
verify_with_apple(production, sandbox) ==
  IF production.status = 21007 THEN sandbox ELSE production

\* existing_user.user_id != request.user_id compares the uuid.UUID loaded from
\* the UUID(as_uuid=True) column with the request's str: never equal.
UuidNeStr(column_uuid, request_str) == TRUE

\* The session after the first n statements of verify_receipt.
verify_receipt_stmts(B, user_id, otid, n) ==
  [users |-> [u \in DOMAIN B.users |->
                IF n >= 1 /\ u = user_id
                  THEN [B.users[u] EXCEPT !.apple_customer_id = otid,
                                          !.subscription_status = "Pro"]
                  ELSE B.users[u]],
   quotaReq |-> [u \in DOMAIN B.quotaReq |->
                   IF n >= 2 /\ u = user_id THEN 100 ELSE B.quotaReq[u]],
   quotaRec |-> [u \in DOMAIN B.quotaRec |->
                   IF n >= 3 /\ u = user_id THEN 100 ELSE B.quotaRec[u]]]

\* "ok", or the reason the handler stops before its updates.
VerifyGate(B, user_id, answer) ==
  IF answer.status # 0 THEN "Apple receipt verification failed"
  ELSE IF ~answer.hasInfo THEN "No valid transaction found"
  ELSE IF answer.otid = NULL THEN "Missing original_transaction_id"
  ELSE IF Cardinality(AppleRows(B, answer.otid)) > 1 THEN "MultipleResultsFound"
  ELSE IF \E e \in AppleRows(B, answer.otid) : UuidNeStr(e, user_id)
    THEN "This purchase is already linked to another account"
  ELSE "ok"

\* The committed billing relations after POST /iap/verify-receipt.
verify_receipt_effect(B, user_id, production, sandbox, fail) ==
  LET answer == verify_with_apple(production, sandbox) IN
  IF VerifyGate(B, user_id, answer) # "ok" THEN B
  ELSE IF fail = 0 THEN verify_receipt_stmts(B, user_id, answer.otid, 3)
  ELSE Rollback(B, verify_receipt_stmts(B, user_id, answer.otid, fail))

verify_receipt_resp(B, user_id, production, sandbox, fail) ==
  LET answer == verify_with_apple(production, sandbox)
      gate == VerifyGate(B, user_id, answer) IN
  IF gate = "MultipleResultsFound" THEN Raised("verify_receipt", gate)
  ELSE IF gate # "ok" THEN Rejected("verify_receipt", gate)
  ELSE IF fail # 0 THEN Failed("verify_receipt", user_id, user_id \in DOMAIN B.users)
  ELSE Resp("verify_receipt", user_id, "receipt", user_id \in DOMAIN B.users, "success", "")

AppleAnswers ==
  {AppleAnswer(0, TRUE, o) : o \in TxnIds \cup {NULL}}
    \cup {AppleAnswer(0, FALSE, NULL), AppleAnswer(21007, FALSE, NULL),
          AppleAnswer(21002, FALSE, NULL)}

\* ------------------------------------------------------------------ referral codes
\* The four referral relations as one value.
Referral == [codes |-> codes, records |-> records, credits |-> credits, ledger |-> ledger]

\* The strings generate_referral_code draws in this model.
CodeStrs == {"AB3X7K", "ZZ9Y8W"}

\* request.referral_code.upper().strip()
UpperStrip(raw) ==
  CASE raw = " ab3x7k " -> "AB3X7K"
    [] OTHER -> raw

CodeInputs == CodeStrs \cup {" ab3x7k ", "NOCODE"}

\* select(ReferralCode).where(ReferralCode.referral_code == code)
is_code_unique(cs, code) == ~\E c \in cs : c.referral_code = code

\* select(ReferralCode).where(ReferralCode.user_id == user_id)
CodeOfUser(cs, user_id) == {c \in cs : c.user_id = user_id}

\* Fault variant: referral_codes without its unique constraints.
CodeInsertUnchecked(cs, row) == TRUE

\* referral_codes: user_id and referral_code are unique columns.
CodeInsertAllowed(cs, row) ==
  /\ ~\E c \in cs : c.user_id = row.user_id
  /\ ~\E c \in cs : c.referral_code = row.referral_code

\* datetime.now(timezone.utc) at the time of the requests, in days.
Now == 1

\* get_code_expiry_date(days=365)
CodeDays == 365

\* A nullable timestamp is <<>> for None and <<t>> for day t.
get_code_expiry_date(days) == <<Now + days>>

\* POST /stripe/my-code with the code generate_unique_code returns (NULL: all
\* ten draws collided and it raised).
get_or_create_referral_code(R, user_id, draw) ==
  IF CodeOfUser(R.codes, user_id) # {} THEN R
  ELSE IF draw = NULL \/ ~is_code_unique(R.codes, draw) THEN R
  ELSE LET row == [user_id |-> user_id, referral_code |-> draw,
                   is_active |-> TRUE, expires_at |-> get_code_expiry_date(CodeDays)] IN
       IF CodeInsertAllowed(R.codes, row)
         THEN [R EXCEPT !.codes = R.codes \cup {row}]
         ELSE R

get_or_create_referral_code_resp(R, user_id, draw) ==
  IF CodeOfUser(R.codes, user_id) # {}
    THEN Resp("my_code", user_id, (CHOOSE c \in CodeOfUser(R.codes, user_id) : TRUE).referral_code,
              TRUE, "success", "Referral code retrieved")
  ELSE IF draw = NULL \/ ~is_code_unique(R.codes, draw) THEN Raised("my_code", "raised")
  ELSE Resp("my_code", user_id, draw, FALSE, "success", "Referral code generated successfully")

\* ------------------------------------------------------------------ referral binding
\* credit_amount=1.00
RewardCents == 100

\* select(ReferralRecord).where(ReferralRecord.referee_user_id == user_id)
ExistingBinding(recs, user_id) == {i \in DOMAIN recs : recs[i].referee_user_id = user_id}

\* select(ReferralCode).where(ReferralCode.referral_code == referral_code)
FindCode(cs, code) == {c \in cs : c.referral_code = code}

\* Fault variant: no code ever expires.
NeverExpired(expires_at) == FALSE

\* is_code_expired(expires_at): False for None, else now > expires_at.
is_code_expired(expires_at) == IF expires_at = <<>> THEN FALSE ELSE Now > expires_at[1]

\* code_obj.user_id == user_id compares the uuid.UUID loaded from the
\* UUID(as_uuid=True) column with the request's str: never equal.
UuidEqStr(column_uuid, request_str) == FALSE

\* Fault variant: the comparison without .lower().
IsProExact(status) == status = "Pro"

\* subscription_status.lower() == 'pro'
IsProLower(status) == status \in {"pro", "Pro"}

\* "ok", or the detail of the HTTPException the checks 1-6 raise, from what
\* the three SELECTs returned.
BindGate(existing, found_codes, us, user_id) ==
  IF existing # {} THEN "You have already used a referral code"
  ELSE IF found_codes = {} THEN "Invalid referral code"
  ELSE LET code_obj == CHOOSE c \in found_codes : TRUE IN
    IF ~code_obj.is_active THEN "Referral code is inactive"
    ELSE IF code_obj.expires_at # <<>> /\ is_code_expired(code_obj.expires_at)
      THEN "Referral code has expired"
    ELSE IF UuidEqStr(code_obj.user_id, user_id) THEN "You cannot use your own referral code"
    ELSE IF user_id \notin DOMAIN us THEN "User not found"
    ELSE IF IsProLower(us[user_id].subscription_status)
      THEN "Cannot bind referral code after subscription"
    ELSE "ok"

\* Fault variant: no unique constraint on the referee column.
RefereeUniqueOff(recs, row) == TRUE

\* referral_records.referee_user_id is a unique column: the INSERT raises
\* IntegrityError when a committed row has the same referee.
RefereeUnique(recs, row) == ~\E i \in DOMAIN recs : recs[i].referee_user_id = row.referee_user_id

\* Fault variant: a pending record that already carries a credit time.
NewRecordCredited(code_obj, user_id, referral_code) ==
  [referrer_user_id |-> code_obj.user_id, referee_user_id |-> user_id,
   referral_code |-> referral_code, credit_amount |-> RewardCents,
   status |-> "pending", credited_at |-> TRUE]

\* Fault variant: a record that is born completed.
NewRecordCompleted(code_obj, user_id, referral_code) ==
  [referrer_user_id |-> code_obj.user_id, referee_user_id |-> user_id,
   referral_code |-> referral_code, credit_amount |-> RewardCents,
   status |-> "completed", credited_at |-> FALSE]

\* ReferralRecord(referrer_user_id, referee_user_id, referral_code,
\* credit_amount=1.00, status='pending')
NewRecord(code_obj, user_id, referral_code) ==
  [referrer_user_id |-> code_obj.user_id, referee_user_id |-> user_id,
   referral_code |-> referral_code, credit_amount |-> RewardCents,
   status |-> "pending", credited_at |-> FALSE]

\* db.add(referral_record); db.commit()
InsertRecord(recs, row) == IF RefereeUnique(recs, row) THEN Append(recs, row) ELSE recs

\* Fault variant: the referrer is credited at bind time.
bind_and_credit(R, us, user_id, raw_code) ==
  LET referral_code == UpperStrip(raw_code)
      found == FindCode(R.codes, referral_code) IN
  IF BindGate(ExistingBinding(R.records, user_id), found, us, user_id) # "ok" THEN R
  ELSE LET code_obj == CHOOSE c \in found : TRUE IN
       [R EXCEPT
          !.records = InsertRecord(R.records, NewRecord(code_obj, user_id, referral_code)),
          !.credits = [u \in DOMAIN R.credits \cup {code_obj.user_id} |->
                         IF u = code_obj.user_id
                           THEN [total_credits |-> RewardCents, used_credits |-> 0,
                                 available_credits |-> RewardCents]
                           ELSE R.credits[u]]]

\* POST /stripe/bind
bind_referral_code(R, us, user_id, raw_code) ==
  LET referral_code == UpperStrip(raw_code)
      found == FindCode(R.codes, referral_code) IN
  IF BindGate(ExistingBinding(R.records, user_id), found, us, user_id) # "ok" THEN R
  ELSE [R EXCEPT !.records =
          InsertRecord(R.records, NewRecord(CHOOSE c \in found : TRUE, user_id, referral_code))]

bind_referral_code_resp(R, us, user_id, raw_code) ==
  LET gate == BindGate(ExistingBinding(R.records, user_id),
                       FindCode(R.codes, UpperStrip(raw_code)), us, user_id) IN
  IF gate # "ok" THEN Resp("bind", user_id, UpperStrip(raw_code), FALSE, "rejected", gate)
  ELSE Resp("bind", user_id, UpperStrip(raw_code), TRUE, "success", "pending")

\* ------------------------------------------------------------------ referral reward
\* Fault variant: the record SELECT without its status filter.
AnyStatusRecords(recs, referee_user_id) ==
  {i \in DOMAIN recs : recs[i].referee_user_id = referee_user_id}

\* select(ReferralRecord).where(referee_user_id == ..., status == 'pending')
PendingRecords(recs, referee_user_id) ==
  {i \in DOMAIN recs : recs[i].referee_user_id = referee_user_id /\ recs[i].status = "pending"}

\* Fault variant: the user SELECT without its customer-id filter.
UserExists(us, referee_user_id, stripe_customer_id) == referee_user_id \in DOMAIN us

\* select(UserLevelEn).where(user_id == referee, stripe_customer_id == ...);
\* a None argument compiles to IS NULL.
UserMatches(us, referee_user_id, stripe_customer_id) ==
  referee_user_id \in DOMAIN us /\ us[referee_user_id].stripe_customer_id = stripe_customer_id

\* select(UserCredit).where(UserCredit.user_id == user_id).scalar_one_or_none()
ReadCredit(cr, user_id) ==
  IF user_id \in DOMAIN cr
    THEN [present |-> TRUE, total_credits |-> cr[user_id].total_credits,
          used_credits |-> cr[user_id].used_credits,
          available_credits |-> cr[user_id].available_credits]
    ELSE [present |-> FALSE, total_credits |-> 0, used_credits |-> 0, available_credits |-> 0]

\* Fault variant: a transaction that does not record the balance it started from.
TxnNoBefore(user_id, type, amount, before, after, ref) ==
  [user_id |-> user_id, transaction_type |-> type, amount |-> amount,
   balance_before |-> 0, balance_after |-> after, reference_id |-> ref]

\* A transaction row whose amount is the balance after the operation
\* instead of the amount moved.
TxnBalanceAsAmount(user_id, type, amount, before, after, ref) ==
  [user_id |-> user_id, transaction_type |-> type, amount |-> after,
   balance_before |-> before, balance_after |-> after, reference_id |-> ref]

\* CreditTransaction(user_id, transaction_type, amount, balance_before,
\* balance_after, reference_id)
Txn(user_id, type, amount, before, after, ref) ==
  [user_id |-> user_id, transaction_type |-> type, amount |-> amount,
   balance_before |-> before, balance_after |-> after, reference_id |-> ref]

\* Steps 3-5 of process_referral_reward on the store R, from the record and
\* the credit row the SELECTs returned: the credit UPDATE (or INSERT, refused
\* by the primary key when the row exists by now), the 'earned' transaction
\* and the record UPDATE.  ok = FALSE: the INSERT raised, nothing is written.
RewardWrites(R, rid, rec, credit_read) ==
  LET referrer == rec.referrer_user_id
      amount == rec.credit_amount IN
  IF ~credit_read.present /\ referrer \in DOMAIN R.credits THEN [ok |-> FALSE, R |-> R]
  ELSE
    [ok |-> TRUE,
     R |-> [R EXCEPT
       !.credits =
         IF credit_read.present
           THEN [R.credits EXCEPT
                   ![referrer].total_credits = credit_read.total_credits + amount,
                   ![referrer].available_credits = credit_read.available_credits + amount]
           ELSE [u \in DOMAIN R.credits \cup {referrer} |->
                   IF u = referrer
                     THEN [total_credits |-> amount, used_credits |-> 0,
                           available_credits |-> amount]
                     ELSE R.credits[u]],
       !.ledger = Append(R.ledger,
                         Txn(referrer, "earned", amount, credit_read.available_credits,
                             credit_read.available_credits + amount, ToString(rid))),
       !.records = [R.records EXCEPT ![rid].status = "completed",
                                     ![rid].credited_at = TRUE]]]

\* process_referral_reward followed by its caller's commit.
process_referral_reward(R, us, referee_user_id, stripe_customer_id) ==
  LET pending == PendingRecords(R.records, referee_user_id) IN
  IF Cardinality(pending) # 1 THEN R
  ELSE IF ~UserMatches(us, referee_user_id, stripe_customer_id) THEN R
  ELSE LET rid == CHOOSE i \in pending : TRUE IN
       RewardWrites(R, rid, R.records[rid],
                    ReadCredit(R.credits, R.records[rid].referrer_user_id)).R

process_referral_reward_resp(R, us, referee_user_id, stripe_customer_id) ==
  LET pending == PendingRecords(R.records, referee_user_id) IN
  IF pending = {}
    THEN Resp("reward", referee_user_id, stripe_customer_id, FALSE, "noop", "no_pending_referral")
  ELSE IF Cardinality(pending) > 1 THEN Raised("reward", "MultipleResultsFound")
  ELSE IF ~UserMatches(us, referee_user_id, stripe_customer_id)
    THEN Resp("reward", referee_user_id, stripe_customer_id, TRUE, "noop", "user_not_pro")
  ELSE LET rid == CHOOSE i \in pending : TRUE
           cr == ReadCredit(R.credits, R.records[rid].referrer_user_id) IN
       [Resp("reward", referee_user_id, stripe_customer_id, TRUE, "success", "") EXCEPT
          !.amount = R.records[rid].credit_amount,
          !.balance = cr.available_credits + R.records[rid].credit_amount]

\* ------------------------------------------------------------------ credit deduction
Invoices == {"in_1"}

\* The ledger and the provider's invoice items stop growing at these lengths.
MaxLedger == 4

MaxItems == 3

\* Invoice amounts in cents: one below and one above any balance a user holds.
InvoiceCents == {60, 250}

\* Fault variant: the larger of the two amounts.
Max(a, b) == IF a >= b THEN a ELSE b

\* min(credit_amount_cents, invoice_amount_cents)
Min(a, b) == IF a <= b THEN a ELSE b

\* Fault variant: the credits ever earned instead of the available ones.
get_total_credits(cr, user_id) ==
  IF user_id \in DOMAIN cr THEN cr[user_id].total_credits ELSE 0

\* select(UserCredit).where(user_id == ...): available_credits, or 0.00
\* without a row.
get_available_credits(cr, user_id) ==
  IF user_id \in DOMAIN cr THEN cr[user_id].available_credits ELSE 0

\* Fault variant: the deduction without the cap at the balance.
DeductionUncapped(available_credits, invoice_amount_cents) == invoice_amount_cents

\* min(int(available_credits * 100), invoice_amount_cents); amounts are held
\* in cents, so int(x * 100) and Decimal(str(cents / 100)) keep the number.
deduction_cents(available_credits, invoice_amount_cents) ==
  Min(available_credits, invoice_amount_cents)

\* The credit UPDATE and the 'used' transaction of apply_credit_to_invoice on
\* the store R, from the row its second SELECT returned.
DeductionWrites(R, user_id, stripe_invoice_id, deduction, credit_read) ==
  [R EXCEPT
     !.credits = [R.credits EXCEPT
                    ![user_id].used_credits = credit_read.used_credits + deduction,
                    ![user_id].available_credits = credit_read.available_credits - deduction],
     !.ledger = Append(R.ledger,
                       Txn(user_id, "used", deduction, credit_read.available_credits,
                           credit_read.available_credits - deduction, stripe_invoice_id))]

\* What the call leaves at the payment provider: stripe.InvoiceItem.create
\* with amount = -deduction_cents, unless Stripe refuses it.
apply_credit_items(items, R, user_id, stripe_invoice_id, invoice_amount_cents, ext) ==
  IF get_available_credits(R.credits, user_id) <= 0 \/ ext = "stripe_error" THEN items
  ELSE Append(items,
              [invoice |-> stripe_invoice_id,
               amount |-> 0 - deduction_cents(get_available_credits(R.credits, user_id),
                                              invoice_amount_cents)])

\* apply_credit_to_invoice followed by its caller's commit; ext = "db_error":
\* a statement after the provider call raises and the session is rolled back.
apply_credit_to_invoice(R, user_id, stripe_invoice_id, invoice_amount_cents, ext) ==
  LET available_credits == get_available_credits(R.credits, user_id) IN
  IF available_credits <= 0 \/ ext = "stripe_error" THEN R
  ELSE LET after == DeductionWrites(R, user_id, stripe_invoice_id,
                                    deduction_cents(available_credits, invoice_amount_cents),
                                    ReadCredit(R.credits, user_id)) IN
       IF ext = "db_error" THEN Rollback(R, after) ELSE after

apply_credit_to_invoice_resp(R, user_id, stripe_invoice_id, invoice_amount_cents, ext) ==
  LET available_credits == get_available_credits(R.credits, user_id)
      deduction == deduction_cents(available_credits, invoice_amount_cents) IN
  IF available_credits <= 0
    THEN Resp("apply_credit", user_id, stripe_invoice_id, FALSE, "noop", "no_credits")
  ELSE IF ext = "stripe_error"
    THEN Resp("apply_credit", user_id, stripe_invoice_id, TRUE, "noop", "stripe_error")
  ELSE IF ext = "db_error" THEN Failed("apply_credit", user_id, TRUE)
  ELSE [Resp("apply_credit", user_id, stripe_invoice_id, TRUE, "success", "") EXCEPT
          !.amount = deduction, !.balance = available_credits - deduction]

\* ------------------------------------------------------------------ initial state
Procs == {"p1", "p2"}

\* A request's session: where the handler is, its arguments, and what its
\* SELECTs returned so far.
Session(pc, user, code, cust, referrer, rid, cread) ==
  [pc |-> pc, user |-> user, code |-> code, cust |-> cust, referrer |-> referrer,
   rid |-> rid, cread |-> cread]

NoCredit == [present |-> FALSE, total_credits |-> 0, used_credits |-> 0, available_credits |-> 0]

Idle == Session("idle", NULL, NULL, NULL, NULL, 0, NoCredit)

Init ==
  /\ users = [u \in {} |-> NULL]
  /\ quotaReq = [u \in {} |-> 0]
  /\ quotaRec = [u \in {} |-> 0]
  /\ codes = {}
  /\ records = <<>>
  /\ credits = [u \in {} |-> NULL]
  /\ ledger = <<>>
  /\ invoiceItems = <<>>
  /\ sess = [p \in Procs |-> Idle]
  /\ last = Resp("init", NULL, NULL, FALSE, "success", "")

\* ------------------------------------------------------------------ billing actions
Commit(B) ==
  /\ users' = B.users
  /\ quotaReq' = B.quotaReq
  /\ quotaRec' = B.quotaRec

sync_new_users(rows) ==
  /\ Commit(do_sync_new_users(Billing, rows))
  /\ last' = Resp("sync_new_users", NULL, NULL, FALSE, "success", "")
  /\ UNCHANGED <<refVars, invoiceItems, sess>>

stripe_webhook(sig, user_id, event_type, cust, fail) ==
  /\ Commit(stripe_webhook_effect(Billing, sig, user_id, event_type, cust, fail))
  /\ last' = stripe_webhook_resp(Billing, sig, user_id, event_type, fail)
  /\ UNCHANGED <<refVars, invoiceItems, sess>>

stripe_paid_process(customer_email, event_type, cust, fail) ==
  /\ Commit(stripe_paid_process_effect(Billing, customer_email, event_type, cust, fail))
  /\ last' = stripe_paid_process_resp(Billing, customer_email, event_type, fail)
  /\ UNCHANGED <<refVars, invoiceItems, sess>>

apple_webhook(signedPayload, fail) ==
  /\ Commit(apple_webhook_effect(Billing, signedPayload, fail))
  /\ last' = apple_webhook_resp(Billing, signedPayload, fail)
  /\ UNCHANGED <<refVars, invoiceItems, sess>>

verify_receipt(user_id, production, sandbox, fail) ==
  /\ Commit(verify_receipt_effect(Billing, user_id, production, sandbox, fail))
  /\ last' = verify_receipt_resp(Billing, user_id, production, sandbox, fail)
  /\ UNCHANGED <<refVars, invoiceItems, sess>>

\* ------------------------------------------------------------------ referral actions
CommitReferral(R) ==
  /\ codes' = R.codes
  /\ records' = R.records
  /\ credits' = R.credits
  /\ ledger' = R.ledger

my_code(user_id, draw) ==
  /\ CommitReferral(get_or_create_referral_code(Referral, user_id, draw))
  /\ last' = get_or_create_referral_code_resp(Referral, user_id, draw)
  /\ UNCHANGED <<billVars, invoiceItems, sess>>

bind(user_id, raw_code) ==
  /\ CommitReferral(bind_referral_code(Referral, users, user_id, raw_code))
  /\ last' = bind_referral_code_resp(Referral, users, user_id, raw_code)
  /\ UNCHANGED <<billVars, invoiceItems, sess>>

reward(referee_user_id, stripe_customer_id) ==
  /\ Len(ledger) < MaxLedger
  /\ CommitReferral(process_referral_reward(Referral, users, referee_user_id, stripe_customer_id))
  /\ last' = process_referral_reward_resp(Referral, users, referee_user_id, stripe_customer_id)
  /\ UNCHANGED <<billVars, invoiceItems, sess>>

apply_credit(user_id, stripe_invoice_id, invoice_amount_cents, ext) ==
  /\ Len(ledger) < MaxLedger /\ Len(invoiceItems) < MaxItems
  /\ CommitReferral(apply_credit_to_invoice(Referral, user_id, stripe_invoice_id,
                                            invoice_amount_cents, ext))
  /\ invoiceItems' = apply_credit_items(invoiceItems, Referral, user_id, stripe_invoice_id,
                                        invoice_amount_cents, ext)
  /\ last' = apply_credit_to_invoice_resp(Referral, user_id, stripe_invoice_id,
                                          invoice_amount_cents, ext)
  /\ UNCHANGED <<billVars, sess>>

NextLedger ==
  \/ \E rows \in {Users \ DOMAIN users} : sync_new_users(rows)
  \/ \E user_id \in Users, draw \in CodeStrs \cup {NULL} : my_code(user_id, draw)
  \/ \E user_id \in Users, raw_code \in CodeInputs : bind(user_id, raw_code)
  \/ \E referee_user_id \in Users, cust \in CustIds \cup {NULL} :
       reward(referee_user_id, cust)
  \/ \E user_id \in Users, inv \in Invoices, cents \in InvoiceCents,
        ext \in {"ok", "stripe_error", "db_error"} :
       apply_credit(user_id, inv, cents, ext)

\* The referral and credit operations, on users that never paid.
SpecLedger == Init /\ [][NextLedger]_vars

\* ------------------------------------------------------------------ payments and referrals
\* Registration, code creation, binding, the two Stripe handlers and the
\* reward step, each as one transaction.
NextUpgrade ==
  \/ \E rows \in {Users \ DOMAIN users} : sync_new_users(rows)
  \/ \E user_id \in Users, draw \in CodeStrs : my_code(user_id, draw)
  \/ \E user_id \in Users, raw_code \in CodeStrs : bind(user_id, raw_code)
  \/ \E user_id \in Users, event_type \in {"invoice.payment_succeeded",
                                             "customer.subscription.deleted"} :
       stripe_webhook("valid", user_id, event_type, "cus_1", 0)
  \/ \E user_id \in Users, event_type \in {"invoice.payment_succeeded",
                                             "customer.subscription.deleted"} :
       stripe_paid_process(EmailOf(user_id), event_type, "cus_1", 0)
  \/ \E referee_user_id \in Users, cust \in CustIds \cup {NULL} :
       reward(referee_user_id, cust)

SpecUpgrade == Init /\ [][NextUpgrade]_vars

\* ------------------------------------------------------------------ concurrent requests
\* Two requests in flight, each in its own session and transaction.  A SELECT
\* reads the committed relations; the writes of a transaction reach them at
\* its commit, where the unique and primary-key constraints are enforced.

\* bind_referral_code, check 1: the referee's existing record.
bind_select_existing(p, user_id, raw_code) ==
  /\ sess[p].pc = "idle"
  /\ IF ExistingBinding(records, user_id) # {}
       THEN /\ last' = Resp("bind", user_id, UpperStrip(raw_code), FALSE, "rejected",
                            "You have already used a referral code")
            /\ UNCHANGED sess
       ELSE /\ sess' = [sess EXCEPT ![p] = Session("bind_code", user_id, UpperStrip(raw_code),
                                                   NULL, NULL, 0, NoCredit)]
            /\ UNCHANGED last
  /\ UNCHANGED <<billVars, refVars, invoiceItems>>

\* bind_referral_code, checks 2-6: the code and the referee's user row.
bind_select_code(p) ==
  /\ sess[p].pc = "bind_code"
  /\ LET found == FindCode(codes, sess[p].code)
         gate == BindGate({}, found, users, sess[p].user) IN
     IF gate # "ok"
       THEN /\ last' = Resp("bind", sess[p].user, sess[p].code, FALSE, "rejected", gate)
            /\ sess' = [sess EXCEPT ![p] = Idle]
       ELSE /\ sess' = [sess EXCEPT ![p].pc = "bind_insert",
                                    ![p].referrer = (CHOOSE c \in found : TRUE).user_id]
            /\ UNCHANGED last
  /\ UNCHANGED <<billVars, refVars, invoiceItems>>

\* bind_referral_code, step 7: db.add and db.commit; an IntegrityError is
\* caught, rolled back and answered 500.
bind_commit(p) ==
  /\ sess[p].pc = "bind_insert"
  /\ LET row == NewRecord([user_id |-> sess[p].referrer], sess[p].user, sess[p].code) IN
     /\ records' = InsertRecord(records, row)
     /\ last' = IF InsertRecord(records, row) # records
                  THEN Resp("bind", sess[p].user, sess[p].code, TRUE, "success", "pending")
                  ELSE Resp("bind", sess[p].user, sess[p].code, FALSE, "error", "IntegrityError")
  /\ sess' = [sess EXCEPT ![p] = Idle]
  /\ UNCHANGED <<billVars, codes, credits, ledger, invoiceItems>>

\* process_referral_reward, step 1: the referee's pending record.
reward_select_pending(p, referee_user_id, stripe_customer_id) ==
  /\ sess[p].pc = "idle"
  /\ LET pending == PendingRecords(records, referee_user_id) IN
     IF Cardinality(pending) # 1
       THEN /\ last' = process_referral_reward_resp(Referral, users, referee_user_id,
                                                    stripe_customer_id)
            /\ UNCHANGED sess
       ELSE /\ sess' = [sess EXCEPT ![p] =
                          Session("reward_user", referee_user_id, NULL, stripe_customer_id,
                                  records[CHOOSE i \in pending : TRUE].referrer_user_id,
                                  CHOOSE i \in pending : TRUE, NoCredit)]
            /\ UNCHANGED last
  /\ UNCHANGED <<billVars, refVars, invoiceItems>>

\* process_referral_reward, step 2: the referee's user row.
reward_select_user(p) ==
  /\ sess[p].pc = "reward_user"
  /\ IF ~UserMatches(users, sess[p].user, sess[p].cust)
       THEN /\ last' = Resp("reward", sess[p].user, sess[p].cust, TRUE, "noop", "user_not_pro")
            /\ sess' = [sess EXCEPT ![p] = Idle]
       ELSE /\ sess' = [sess EXCEPT ![p].pc = "reward_credit"]
            /\ UNCHANGED last
  /\ UNCHANGED <<billVars, refVars, invoiceItems>>

\* process_referral_reward, step 3: the referrer's credit row.
reward_select_credit(p) ==
  /\ sess[p].pc = "reward_credit"
  /\ sess' = [sess EXCEPT ![p].pc = "reward_write",
                          ![p].cread = ReadCredit(credits, sess[p].referrer)]
  /\ UNCHANGED <<billVars, refVars, invoiceItems, last>>

\* process_referral_reward, steps 3-5 and the caller's commit.
reward_commit(p) ==
  /\ sess[p].pc = "reward_write"
  /\ LET w == RewardWrites(Referral, sess[p].rid, records[sess[p].rid], sess[p].cread) IN
     /\ CommitReferral(w.R)
     /\ last' = IF w.ok
                  THEN [Resp("reward", sess[p].user, sess[p].cust, TRUE, "success", "") EXCEPT
                          !.amount = records[sess[p].rid].credit_amount,
                          !.balance = sess[p].cread.available_credits
                                        + records[sess[p].rid].credit_amount]
                  ELSE Resp("reward", sess[p].user, sess[p].cust, TRUE, "error", "IntegrityError")
  /\ sess' = [sess EXCEPT ![p] = Idle]
  /\ UNCHANGED <<billVars, invoiceItems>>

NextConc ==
  \/ \E rows \in {Users \ DOMAIN users} : sync_new_users(rows)
  \/ \E user_id \in Users, draw \in CodeStrs : my_code(user_id, draw)
  \/ \E p \in Procs, user_id \in Users, raw_code \in CodeStrs :
       bind_select_existing(p, user_id, raw_code)
  \/ \E p \in Procs : bind_select_code(p)
  \/ \E p \in Procs : bind_commit(p)
  \/ \E p \in Procs, referee_user_id \in Users, cust \in CustIds \cup {NULL} :
       reward_select_pending(p, referee_user_id, cust)
  \/ \E p \in Procs : reward_select_user(p)
  \/ \E p \in Procs : reward_select_credit(p)
  \/ \E p \in Procs : reward_commit(p)

\* Bind and reward requests interleaved statement by statement.
SpecConc == Init /\ [][NextConc]_vars

\* ------------------------------------------------------------------ concurrent receipt verifications
\* verify_receipt, steps 1-3: the provider's answer and the SELECT of the row
\* that already holds the original_transaction_id.
verify_select_existing(p, user_id, production, sandbox) ==
  /\ sess[p].pc = "idle"
  /\ LET answer == verify_with_apple(production, sandbox) IN
     IF VerifyGate(Billing, user_id, answer) # "ok"
       THEN /\ last' = verify_receipt_resp(Billing, user_id, production, sandbox, 0)
            /\ UNCHANGED sess
       ELSE /\ sess' = [sess EXCEPT ![p] = Session("verify_write", user_id, NULL, answer.otid,
                                                   NULL, 0, NoCredit)]
            /\ UNCHANGED last
  /\ UNCHANGED <<billVars, refVars, invoiceItems>>

\* verify_receipt, steps 4-5 and db.commit(): the three UPDATEs by user_id.
verify_commit(p) ==
  /\ sess[p].pc = "verify_write"
  /\ Commit(verify_receipt_stmts(Billing, sess[p].user, sess[p].cust, 3))
  /\ last' = Resp("verify_receipt", sess[p].user, "receipt", sess[p].user \in DOMAIN users,
                  "success", "")
  /\ sess' = [sess EXCEPT ![p] = Idle]
  /\ UNCHANGED <<refVars, invoiceItems>>

NextVerify ==
  \/ \E rows \in SUBSET (Users \ DOMAIN users) : sync_new_users(rows)
  \/ \E p \in Procs, user_id \in Users, a \in AppleAnswers :
       verify_select_existing(p, user_id, a, AppleAnswer(21002, FALSE, NULL))
  \/ \E p \in Procs : verify_commit(p)
  \/ \E signedPayload \in GoodPayloads : apple_webhook(signedPayload, 0)

\* Receipt verifications interleaved statement by statement, with the Apple
\* notifications that follow them.
SpecVerify == Init /\ [][NextVerify]_vars

\* ------------------------------------------------------------------ receipts and the two endpoints
\* Receipt verifications with every pair of answers of the production and the
\* sandbox endpoint, and the notifications that follow a linked purchase.
NextReceipt ==
  \/ \E rows \in SUBSET (Users \ DOMAIN users) : sync_new_users(rows)
  \/ \E user_id \in Users, production \in AppleAnswers, sandbox \in AppleAnswers :
       verify_receipt(user_id, production, sandbox, 0)
  \/ \E signedPayload \in GoodPayloads : apple_webhook(signedPayload, 0)

SpecReceipt == Init /\ [][NextReceipt]_vars

\* ------------------------------------------------------------------ concurrent credit writers
\* apply_credit_to_invoice statement by statement.  The session keeps the
\* invoice id in .code and the invoice amount, then the deduction, in .rid.

\* apply_credit_to_invoice: get_available_credits and the no_credits return.
apply_select_available(p, user_id, stripe_invoice_id, invoice_amount_cents) ==
  /\ sess[p].pc = "idle"
  /\ Len(ledger) < MaxLedger /\ Len(invoiceItems) < MaxItems
  /\ IF get_available_credits(credits, user_id) <= 0
       THEN /\ last' = Resp("apply_credit", user_id, stripe_invoice_id, FALSE, "noop", "no_credits")
            /\ UNCHANGED sess
       ELSE /\ sess' = [sess EXCEPT ![p] =
                          Session("apply_stripe", user_id, stripe_invoice_id, NULL, NULL,
                                  invoice_amount_cents, ReadCredit(credits, user_id))]
            /\ UNCHANGED last
  /\ UNCHANGED <<billVars, refVars, invoiceItems>>

\* apply_credit_to_invoice: the deduction and stripe.InvoiceItem.create.
apply_invoice_item(p, ext) ==
  /\ sess[p].pc = "apply_stripe"
  /\ LET deduction == deduction_cents(sess[p].cread.available_credits, sess[p].rid) IN
     IF ext = "stripe_error"
       THEN /\ last' = Resp("apply_credit", sess[p].user, sess[p].code, TRUE, "noop", "stripe_error")
            /\ sess' = [sess EXCEPT ![p] = Idle]
            /\ UNCHANGED invoiceItems
       ELSE /\ invoiceItems' = Append(invoiceItems,
                                      [invoice |-> sess[p].code, amount |-> 0 - deduction])
            /\ sess' = [sess EXCEPT ![p].pc = "apply_credit", ![p].rid = deduction]
            /\ UNCHANGED last
  /\ UNCHANGED <<billVars, refVars>>

\* apply_credit_to_invoice: the second SELECT of the credit row.
apply_select_credit(p) ==
  /\ sess[p].pc = "apply_credit"
  /\ sess' = [sess EXCEPT ![p].pc = "apply_write",
                          ![p].cread = ReadCredit(credits, sess[p].user)]
  /\ UNCHANGED <<billVars, refVars, invoiceItems, last>>

\* apply_credit_to_invoice: the UPDATE, the 'used' transaction and the
\* caller's commit.
apply_commit(p) ==
  /\ sess[p].pc = "apply_write"
  /\ CommitReferral(DeductionWrites(Referral, sess[p].user, sess[p].code, sess[p].rid,
                                    sess[p].cread))
  /\ last' = [Resp("apply_credit", sess[p].user, sess[p].code, TRUE, "success", "") EXCEPT
                !.amount = sess[p].rid,
                !.balance = sess[p].cread.available_credits - sess[p].rid]
  /\ sess' = [sess EXCEPT ![p] = Idle]
  /\ UNCHANGED <<billVars, invoiceItems>>

\* The code each user draws in the interleaved runs.
DrawOf(user_id) == IF user_id = "u1" THEN "AB3X7K" ELSE "ZZ9Y8W"

NextRace ==
  \/ \E rows \in {Users \ DOMAIN users} : sync_new_users(rows)
  \/ \E user_id \in Users : my_code(user_id, DrawOf(user_id))
  \/ \E user_id \in Users, raw_code \in CodeStrs : bind(user_id, raw_code)
  \/ \E p \in Procs, referee_user_id \in Users :
       reward_select_pending(p, referee_user_id, NULL)
  \/ \E p \in Procs : reward_select_user(p)
  \/ \E p \in Procs : reward_select_credit(p)
  \/ \E p \in Procs : reward_commit(p)
  \/ \E user_id \in Users, inv \in Invoices :
       apply_select_available("p2", user_id, inv, 60)
  \/ \E p \in Procs : apply_invoice_item(p, "ok")
  \/ \E p \in Procs : apply_select_credit(p)
  \/ \E p \in Procs : apply_commit(p)

\* Reward and deduction requests interleaved statement by statement.
SpecRace == Init /\ [][NextRace]_vars

\* ------------------------------------------------------------------ credit ledger claims
\* C1: after any sequence of completed rewards and deductions, starting from
\* no credit rows, every UserCredit row has total_credits = used_credits +
\* available_credits, and the three amounts are all >= 0.
C1_CreditInvariant ==
  \A u \in DOMAIN credits :
    /\ credits[u].total_credits = credits[u].used_credits + credits[u].available_credits
    /\ credits[u].total_credits >= 0
    /\ credits[u].used_credits >= 0
    /\ credits[u].available_credits >= 0

\* Two rewards and a partial deduction have been applied to one row.
C1_Witness ==
  /\ last.op = "apply_credit" /\ last.outcome = "success"
  /\ \E u \in DOMAIN credits :
       /\ credits[u].total_credits = 2 * RewardCents
       /\ credits[u].used_credits > 0
       /\ credits[u].available_credits > 0

\* The referee has a record that a reward completed.
CompletedFor(recs, referee_user_id) ==
  \E i \in DOMAIN recs :
    recs[i].referee_user_id = referee_user_id /\ recs[i].status = "completed"

\* C5: a reward invocation for a referee whose record an earlier reward
\* completed returns processed = false with reason no_pending_referral and
\* leaves every credit row, the ledger and every referral record unchanged.
C5_SecondRewardNoop ==
  [][\A u \in Users :
       (last'.op = "reward" /\ last'.user = u /\ CompletedFor(records, u))
         => /\ last'.outcome = "noop"
            /\ last'.reason = "no_pending_referral"
            /\ UNCHANGED <<credits, ledger, records>>]_vars

\* The second reward has run: the referee's record was completed and the
\* answer is no_pending_referral.
C5_Witness ==
  /\ last.op = "reward" /\ last.reason = "no_pending_referral"
  /\ CompletedFor(records, last.user)
  /\ \E u \in DOMAIN credits : credits[u].total_credits = RewardCents

\* The requests delivered to the reconciliation handlers: every well-formed
\* event, the rejected ones, and a failure after each UPDATE of the handled ones.
HandledTypes == {"invoice.payment_succeeded", "customer.subscription.deleted"}

WebhookEvents ==
  {[sig |-> "valid", user_id |-> u, event_type |-> t, cust |-> c, fail |-> 0] :
     u \in Users \cup {NULL}, t \in StripeTypes, c \in CustIds \cup {NULL}}
    \cup {[sig |-> "valid", user_id |-> u, event_type |-> t, cust |-> "cus_1", fail |-> f] :
            u \in Users, t \in HandledTypes, f \in FailPoints \ {0}}
    \cup {[sig |-> g, user_id |-> "u1", event_type |-> "invoice.payment_succeeded",
           cust |-> "cus_1", fail |-> 0] : g \in {"missing", "invalid"}}

PaidEvents ==
  {[customer_email |-> m, event_type |-> t, cust |-> c, fail |-> 0] :
     m \in Emails \cup {NULL}, t \in StripeTypes, c \in CustIds \cup {NULL}}
    \cup {[customer_email |-> EmailOf(u), event_type |-> t, cust |-> "cus_1", fail |-> f] :
            u \in Users, t \in HandledTypes, f \in FailPoints \ {0}}

AppleEvents ==
  {[signedPayload |-> s, fail |-> 0] : s \in GoodPayloads \cup BadPayloads}
    \cup {[signedPayload |-> s, fail |-> f] : s \in GoodPayloads, f \in FailPoints \ {0}}

VerifyEvents ==
  {[user_id |-> u, production |-> a, sandbox |-> AppleAnswer(21002, FALSE, NULL), fail |-> 0] :
     u \in Users, a \in AppleAnswers}
    \cup {[user_id |-> u, production |-> AppleAnswer(21007, FALSE, NULL), sandbox |-> a, fail |-> 0] :
            u \in Users, a \in AppleAnswers}
    \cup {[user_id |-> u, production |-> AppleAnswer(0, TRUE, o),
           sandbox |-> AppleAnswer(21002, FALSE, NULL), fail |-> f] :
            u \in Users, o \in TxnIds, f \in FailPoints \ {0}}

NextBilling ==
  \/ \E rows \in SUBSET (Users \ DOMAIN users) : sync_new_users(rows)
  \/ \E e \in WebhookEvents :
       stripe_webhook(e.sig, e.user_id, e.event_type, e.cust, e.fail)
  \/ \E e \in PaidEvents :
       stripe_paid_process(e.customer_email, e.event_type, e.cust, e.fail)
  \/ \E e \in AppleEvents : apple_webhook(e.signedPayload, e.fail)
  \/ \E e \in VerifyEvents :
       verify_receipt(e.user_id, e.production, e.sandbox, e.fail)

\* The reconciliation handlers and the new-user sync alone.
SpecBilling == Init /\ [][NextBilling]_vars

\* ------------------------------------------------------------------ paid users and binding
\* The four reconciliation handlers with the events they accept, and the
\* referral code and bind routes.
NextPaidBind ==
  \/ \E rows \in {Users \ DOMAIN users} : sync_new_users(rows)
  \/ \E user_id \in Users : my_code(user_id, DrawOf(user_id))
  \/ \E user_id \in Users, raw_code \in CodeStrs : bind(user_id, raw_code)
  \/ \E user_id \in Users, event_type \in HandledTypes :
       stripe_webhook("valid", user_id, event_type, "cus_1", 0)
  \/ \E user_id \in Users, event_type \in HandledTypes :
       stripe_paid_process(EmailOf(user_id), event_type, "cus_1", 0)
  \/ \E signedPayload \in GoodPayloads : apple_webhook(signedPayload, 0)
  \/ \E user_id \in Users, o \in TxnIds :
       verify_receipt(user_id, AppleAnswer(0, TRUE, o), AppleAnswer(21002, FALSE, NULL), 0)

SpecPaidBind == Init /\ [][NextPaidBind]_vars

\* ------------------------------------------------------------------ account deletion and rewards
\* TABLES_CLEAN_4UID holds user_level_en and the two quota tables, and none
\* of the referral tables: the user's three billing rows go, the codes,
\* records, credits and transactions stay.
delete_account_rows(B, user_id) ==
  [users |-> [u \in DOMAIN B.users \ {user_id} |-> B.users[u]],
   quotaReq |-> [u \in DOMAIN B.quotaReq \ {user_id} |-> B.quotaReq[u]],
   quotaRec |-> [u \in DOMAIN B.quotaRec \ {user_id} |-> B.quotaRec[u]]]

\* POST /users/delete_account
delete_account(user_id) ==
  /\ Commit(delete_account_rows(Billing, user_id))
  /\ last' = Resp("delete_account", user_id, NULL, user_id \in DOMAIN users, "success", "")
  /\ UNCHANGED <<refVars, invoiceItems, sess>>

NextReward ==
  \/ \E rows \in {Users \ DOMAIN users} : sync_new_users(rows)
  \/ \E user_id \in Users : my_code(user_id, DrawOf(user_id))
  \/ \E user_id \in Users, raw_code \in CodeStrs : bind(user_id, raw_code)
  \/ \E user_id \in Users : stripe_webhook("valid", user_id, "invoice.payment_succeeded", "cus_1", 0)
  \/ \E user_id \in Users : delete_account(user_id)
  \/ \E referee_user_id \in Users, cust \in CustIds \cup {NULL} :
       reward(referee_user_id, cust)

\* Registration, binding, payment, account deletion and the reward step.
SpecReward == Init /\ [][NextReward]_vars

\* ------------------------------------------------------------------ concurrent my-code requests
\* get_or_create_referral_code: the SELECT of the user's existing code.
my_select_existing(p, user_id) ==
  /\ sess[p].pc = "idle"
  /\ IF CodeOfUser(codes, user_id) # {}
       THEN /\ last' = get_or_create_referral_code_resp(Referral, user_id, NULL)
            /\ UNCHANGED sess
       ELSE /\ sess' = [sess EXCEPT ![p] = Session("my_generate", user_id, NULL, NULL, NULL,
                                                   0, NoCredit)]
            /\ UNCHANGED last
  /\ UNCHANGED <<billVars, refVars, invoiceItems>>

\* generate_unique_code: the draw whose is_code_unique SELECT found no row, or
\* NULL when all ten draws collided and it raised.
my_generate_unique(p, draw) ==
  /\ sess[p].pc = "my_generate"
  /\ draw = NULL \/ is_code_unique(codes, draw)
  /\ IF draw = NULL
       THEN /\ last' = Raised("my_code", "raised")
            /\ sess' = [sess EXCEPT ![p] = Idle]
       ELSE /\ sess' = [sess EXCEPT ![p].pc = "my_insert", ![p].code = draw]
            /\ UNCHANGED last
  /\ UNCHANGED <<billVars, refVars, invoiceItems>>

\* db.add and db.commit; an IntegrityError is rolled back and answered 500.
my_commit(p) ==
  /\ sess[p].pc = "my_insert"
  /\ LET row == [user_id |-> sess[p].user, referral_code |-> sess[p].code,
                 is_active |-> TRUE, expires_at |-> get_code_expiry_date(CodeDays)] IN
     IF CodeInsertAllowed(codes, row)
       THEN /\ codes' = codes \cup {row}
            /\ last' = Resp("my_code", sess[p].user, sess[p].code, FALSE, "success",
                            "Referral code generated successfully")
       ELSE /\ codes' = codes
            /\ last' = Resp("my_code", sess[p].user, NULL, FALSE, "error", "IntegrityError")
  /\ sess' = [sess EXCEPT ![p] = Idle]
  /\ UNCHANGED <<billVars, records, credits, ledger, invoiceItems>>

NextCodeRace ==
  \/ \E p \in Procs, user_id \in Users : my_select_existing(p, user_id)
  \/ \E p \in Procs, draw \in CodeStrs \cup {NULL} : my_generate_unique(p, draw)
  \/ \E p \in Procs : my_commit(p)

\* my-code requests interleaved statement by statement.
SpecCodeRace == Init /\ [][NextCodeRace]_vars

\* ------------------------------------------------------------------ code generation
\* string.ascii_uppercase and string.digits, one character per element.
ascii_uppercase ==
  <<"A", "B", "C", "D", "E", "F", "G", "H", "I", "J", "K", "L", "M",
    "N", "O", "P", "Q", "R", "S", "T", "U", "V", "W", "X", "Y", "Z">>

digits == <<"0", "1", "2", "3", "4", "5", "6", "7", "8", "9">>

\* str.replace(ch, ''): the string without its occurrences of ch.
Remove(str, ch) == SelectSeq(str, LAMBDA c : c # ch)

\* generate_referral_code(length=6)
CodeLength == 6

\* The alphabet generate_referral_code draws from.
characters == Remove(Remove(Remove(ascii_uppercase \o digits, "O"), "I"), "L")

\* The positions random.choices picks in this model: "A", "Z", "0" and "1".
Picks == {1, 23, 24, 25}

\* ''.join(random.choices(characters, k=length)), for the picked positions.
generate_referral_code(length, picks) == [i \in 1..length |-> characters[picks[i]]]

\* One call of generate_referral_code().
generate_code(picks) ==
  /\ last' = Resp("generate_referral_code", NULL, generate_referral_code(CodeLength, picks),
                  FALSE, "success", "")
  /\ UNCHANGED <<billVars, refVars, invoiceItems, sess>>

NextGenerate == \E picks \in [1..CodeLength -> Picks] : generate_code(picks)

SpecGenerate == Init /\ [][NextGenerate]_vars

\* ------------------------------------------------------------------ concurrent deductions
\* Rewards as one transaction each, and deduction calls of both processes
\* interleaved statement by statement.
NextSpend ==
  \/ \E rows \in {Users \ DOMAIN users} : sync_new_users(rows)
  \/ \E user_id \in Users : my_code(user_id, DrawOf(user_id))
  \/ \E user_id \in Users, raw_code \in CodeStrs : bind(user_id, raw_code)
  \/ \E referee_user_id \in Users : reward(referee_user_id, NULL)
  \/ \E p \in Procs, user_id \in Users, inv \in Invoices :
       apply_select_available(p, user_id, inv, 60)
  \/ \E p \in Procs : apply_invoice_item(p, "ok")
  \/ \E p \in Procs : apply_select_credit(p)
  \/ \E p \in Procs : apply_commit(p)

SpecSpend == Init /\ [][NextSpend]_vars

\* ------------------------------------------------------------------ all writers
\* Every operation that writes a billing, referral or credit relation, each
\* as one transaction.
NextOwnership ==
  \/ \E rows \in {Users \ DOMAIN users} : sync_new_users(rows)
  \/ \E user_id \in Users : my_code(user_id, DrawOf(user_id))
  \/ \E user_id \in Users, raw_code \in CodeStrs : bind(user_id, raw_code)
  \/ \E user_id \in Users :
       stripe_webhook("valid", user_id, "customer.subscription.deleted", "cus_1", 0)
  \/ \E user_id \in Users :
       stripe_paid_process(EmailOf(user_id), "invoice.payment_succeeded", "cus_1", 0)
  \/ \E t \in {"EXPIRED", "DID_RENEW"} :
       apple_webhook(Jws(3, TRUE, NotificationDoc(t, TRUE, 3, TRUE, "otid_1")), 0)
  \/ \E user_id \in Users :
       verify_receipt(user_id, AppleAnswer(0, TRUE, "otid_1"), AppleAnswer(21002, FALSE, NULL), 0)
  \/ \E referee_user_id \in Users : reward(referee_user_id, "cus_1")
  \/ \E user_id \in Users, inv \in Invoices : apply_credit(user_id, inv, 60, "ok")

SpecOwnership == Init /\ [][NextOwnership]_vars

\* ------------------------------------------------------------------ stored referral codes
\* The values the nullable expires_at column holds: None, a day before the
\* request, the day of the request, the day a code created now expires.
ExpiryValues == {<<>>, <<Now - 1>>, <<Now>>, get_code_expiry_date(CodeDays)}

\* The rows of referral_codes a user can own: is_active is a non-null Boolean,
\* expires_at a nullable timestamp.
CodeRows(user_id) ==
  {[user_id |-> user_id, referral_code |-> DrawOf(user_id), is_active |-> a, expires_at |-> e] :
     a \in BOOLEAN, e \in ExpiryValues}

\* The referral_codes tables with at most one row per user.
CodeTables ==
  {t \in SUBSET (UNION {CodeRows(u) : u \in Users}) :
     \A c, d \in t : c.user_id = d.user_id => c = d}

\* The store with a referral_codes table written earlier and nothing else.
InitCodes ==
  /\ users = [u \in {} |-> NULL]
  /\ quotaReq = [u \in {} |-> 0]
  /\ quotaRec = [u \in {} |-> 0]
  /\ codes \in CodeTables
  /\ records = <<>>
  /\ credits = [u \in {} |-> NULL]
  /\ ledger = <<>>
  /\ invoiceItems = <<>>
  /\ sess = [p \in Procs |-> Idle]
  /\ last = Resp("init", NULL, NULL, FALSE, "success", "")

NextCodes ==
  \/ \E rows \in {Users \ DOMAIN users} : sync_new_users(rows)
  \/ \E user_id \in Users : my_code(user_id, DrawOf(user_id))
  \/ \E user_id \in Users, raw_code \in CodeInputs : bind(user_id, raw_code)

SpecCodes == InitCodes /\ [][NextCodes]_vars

\* ------------------------------------------------------------------ claims: reconciliation
ReconOps == {"stripe_webhook", "stripe_paid", "apple_webhook", "verify_receipt"}

\* The last handler was a reconciliation that found its user and committed.
Reconciled == last.op \in ReconOps /\ last.outcome = "success" /\ last.found

\* C2: immediately after a reconciliation that finds its user, both quota rows
\* of that user have month_limit 100 when the status is Pro and 0 when it is
\* Free, Expired or Refunded.
C2_LimitsFollowStatus ==
  Reconciled =>
    /\ users[last.user].subscription_status = "Pro" =>
          quotaReq[last.user] = 100 /\ quotaRec[last.user] = 100
    /\ users[last.user].subscription_status \in {"Free", "Expired", "Refunded"} =>
          quotaReq[last.user] = 0 /\ quotaRec[last.user] = 0

\* C7: in every reachable state, for every event of every handler, applying
\* the event twice in succession leaves the same status, provider customer ids
\* and quota limits as applying it once.
C7_Idempotent ==
  /\ \A e \in WebhookEvents :
       LET once == stripe_webhook_effect(Billing, e.sig, e.user_id, e.event_type, e.cust, 0) IN
       stripe_webhook_effect(once, e.sig, e.user_id, e.event_type, e.cust, 0) = once
  /\ \A e \in PaidEvents :
       LET once == stripe_paid_process_effect(Billing, e.customer_email, e.event_type, e.cust, 0) IN
       stripe_paid_process_effect(once, e.customer_email, e.event_type, e.cust, 0) = once
  /\ \A e \in AppleEvents :
       LET once == apple_webhook_effect(Billing, e.signedPayload, 0) IN
       apple_webhook_effect(once, e.signedPayload, 0) = once
  /\ \A e \in VerifyEvents :
       LET once == verify_receipt_effect(Billing, e.user_id, e.production, e.sandbox, 0) IN
       verify_receipt_effect(once, e.user_id, e.production, e.sandbox, 0) = once

\* A webhook-handle payment event has just changed a found user, and applying
\* it again is the case the claim is about.
C7_Witness ==
  /\ Reconciled /\ last.op = "stripe_webhook" /\ last.kind = "invoice.payment_succeeded"
  /\ users[last.user].stripe_customer_id = "cus_1"
  /\ quotaReq[last.user] = 100
  /\ stripe_webhook_effect(Billing, "valid", last.user, last.kind, "cus_1", 0) = Billing

\* The status the transition table gives an event kind (NULL: not in the table).
TableStatus(kind) ==
  CASE kind = "invoice.payment_succeeded" -> "Pro"
    [] kind = "customer.subscription.deleted" -> "Free"
    [] kind \in {"DID_RENEW", "SUBSCRIBED"} -> "Pro"
    [] kind = "EXPIRED" -> "Expired"
    [] kind = "REFUND" -> "Refunded"
    [] OTHER -> NULL

\* C8: for a found user the status after an event is the transition table's:
\* payment succeeded and renewal give Pro, subscription cancelled gives Free,
\* EXPIRED gives Expired, REFUND gives Refunded.
C8_TransitionTable ==
  (Reconciled /\ last.op # "verify_receipt" /\ TableStatus(last.kind) # NULL) =>
    users[last.user].subscription_status = TableStatus(last.kind)

\* C9: a DID_CHANGE_RENEWAL_STATUS notification leaves the found user's
\* subscription_status as it was, whatever it was.
C9_RenewalStatusKeepsStatus ==
  [][(/\ last'.op = "apple_webhook" /\ last'.outcome = "success"
      /\ last'.kind = "DID_CHANGE_RENEWAL_STATUS"
      /\ users[last'.user].subscription_status \in {"Free", "Pro", "Expired", "Refunded"}) =>
       users'[last'.user].subscription_status = users[last'.user].subscription_status]_vars

\* The limit a handler's quota UPDATEs carry for the event it answered
\* (-1: the handler issues no quota UPDATE for that event).
WrittenLimit(resp) ==
  CASE resp.op = "stripe_webhook" /\ resp.kind = "invoice.payment_succeeded" -> 100
    [] resp.op = "stripe_webhook" /\ resp.kind = "customer.subscription.deleted" -> 5
    [] resp.op = "stripe_paid" /\ resp.kind = "invoice.payment_succeeded" -> 100
    [] resp.op = "stripe_paid" /\ resp.kind = "customer.subscription.deleted" -> 0
    [] resp.op = "verify_receipt" -> 100
    [] resp.op = "apple_webhook" /\ resp.kind \notin {"EXPIRED", "REFUND"} -> 100
    [] OTHER -> -1

\* C10: the status write and the quota-limit writes of one reconciliation are
\* all committed or none is: a step that changes a user's status is a
\* successful reconciliation after which both quota rows of that user carry
\* the limit the handler writes for that event, and a reconciliation that
\* fails after any of its UPDATEs leaves the three relations unchanged.
C10_StatusAndQuotaAtomic ==
  [][/\ \A u \in DOMAIN users :
          users'[u].subscription_status # users[u].subscription_status =>
            /\ last'.op \in ReconOps /\ last'.outcome = "success" /\ last'.user = u
            /\ WrittenLimit(last') # -1 =>
                  quotaReq'[u] = WrittenLimit(last') /\ quotaRec'[u] = WrittenLimit(last')
     /\ last'.outcome = "error" => UNCHANGED billVars]_vars

\* A webhook-handle reconciliation of an existing user has just failed after
\* one of its UPDATEs.
C10_Witness ==
  /\ last = Failed("stripe_webhook", "u1", TRUE)
  /\ users["u1"].subscription_status = "Pro"

\* ------------------------------------------------------------------ claims: referral
\* C3: under any interleaving of concurrent bind requests for one referee, at
\* most one ReferralRecord with that referee ever exists in the committed
\* store; a bind that commits after another keeps the records as they are and
\* is not answered with success.
C3_OneRecordPerReferee ==
  [][/\ \A u \in Users :
          /\ Cardinality(ExistingBinding(records', u)) <= 1
          /\ ExistingBinding(records, u) # {} =>
                ExistingBinding(records', u) = ExistingBinding(records, u)
     /\ \A p \in Procs :
          (/\ sess[p].pc = "bind_insert" /\ sess'[p].pc = "idle"
           /\ ExistingBinding(records, sess[p].user) # {})
            => records' = records /\ last'.op = "bind" /\ last'.outcome = "error"]_vars

\* Two binds for one referee both passed the checks; the second INSERT was
\* refused.
C3_Witness ==
  /\ last.op = "bind" /\ last.outcome = "error" /\ last.reason = "IntegrityError"
  /\ Cardinality(ExistingBinding(records, last.user)) = 1

\* The 'earned' transactions that reference record rid.
EarnedFor(rid) ==
  {k \in DOMAIN ledger :
     ledger[k].transaction_type = "earned" /\ ledger[k].reference_id = ToString(rid)}

\* The credit_amount of the first n records that are completed and name the referrer.
RECURSIVE CompletedCents(_, _, _)
CompletedCents(recs, referrer, n) ==
  IF n = 0 THEN 0
  ELSE CompletedCents(recs, referrer, n - 1)
         + (IF recs[n].referrer_user_id = referrer /\ recs[n].status = "completed"
              THEN recs[n].credit_amount ELSE 0)

\* C4: reward invocations that run concurrently for one referee credit the
\* referrer once: each record has exactly one 'earned' transaction once it is
\* completed and none before, and a referrer's total_credits is the sum of
\* the credit_amount of the completed records that name them.
C4_ConcurrentRewardOnce ==
  /\ \A i \in DOMAIN records :
       Cardinality(EarnedFor(i)) = IF records[i].status = "completed" THEN 1 ELSE 0
  /\ \A u \in Users :
       (IF u \in DOMAIN credits THEN credits[u].total_credits ELSE 0)
         = CompletedCents(records, u, Len(records))

\* C6: a payment-succeeded event for a found user with a pending referral
\* record makes the user Pro with both limits 100, completes the record and
\* adds its credit_amount to the referrer's available_credits.
C6_PaymentTriggersReward ==
  [][\A i \in DOMAIN records :
       (/\ last'.op \in {"stripe_webhook", "stripe_paid"} /\ last'.outcome = "success"
        /\ last'.kind = "invoice.payment_succeeded" /\ last'.found
        /\ records[i].referee_user_id = last'.user /\ records[i].status = "pending")
         => /\ records'[i].status = "completed"
            /\ records[i].referrer_user_id \in DOMAIN credits'
            /\ credits'[records[i].referrer_user_id].available_credits
                 = get_available_credits(credits, records[i].referrer_user_id)
                     + records[i].credit_amount
            /\ users'[last'.user].subscription_status = "Pro"
            /\ quotaReq'[last'.user] = 100 /\ quotaRec'[last'.user] = 100]_vars

\* C11: reward is all-or-nothing: in every committed state a record is
\* completed exactly when one 'earned' transaction references it and the
\* referrer's credit row holds at least its credit_amount.
C11_RewardAllOrNothing ==
  \A i \in DOMAIN records :
    (records[i].status = "completed")
      <=> /\ Cardinality(EarnedFor(i)) = 1
          /\ records[i].referrer_user_id \in DOMAIN credits
          /\ credits[records[i].referrer_user_id].total_credits >= records[i].credit_amount

\* The ledger entries of one user, in creation order.
UserEntries(u) == SelectSeq(ledger, LAMBDA t : t.user_id = u)

\* C12: for each user, every ledger entry starts from the balance the previous
\* entry of that user ended with (0 for the first), and ends at that balance
\* plus the amount for 'earned' and minus the amount for 'used'.
C12_LedgerChain ==
  \A u \in Users :
    LET es == UserEntries(u) IN
    \A k \in 1 .. Len(es) :
      /\ es[k].balance_before = (IF k = 1 THEN 0 ELSE es[k - 1].balance_after)
      /\ es[k].transaction_type = "earned" =>
            es[k].balance_after = es[k].balance_before + es[k].amount
      /\ es[k].transaction_type = "used" =>
            es[k].balance_after = es[k].balance_before - es[k].amount
      /\ es[k].transaction_type \in {"earned", "used"}

\* The ledgers of two users are interleaved: an entry of another user lies
\* between a user's earned entry and that user's used entry.
C12_Witness ==
  \E k, l, m \in DOMAIN ledger :
    /\ k < l /\ l < m
    /\ ledger[k].user_id = ledger[m].user_id /\ ledger[l].user_id # ledger[k].user_id
    /\ ledger[k].transaction_type = "earned" /\ ledger[m].transaction_type = "used"

\* The amounts of the first n ledger entries that are 'used' entries of user u.
RECURSIVE UsedCents(_, _, _)
UsedCents(txns, u, n) ==
  IF n = 0 THEN 0
  ELSE UsedCents(txns, u, n - 1)
         + (IF txns[n].user_id = u /\ txns[n].transaction_type = "used"
              THEN txns[n].amount ELSE 0)

\* C13: writers of one credit row are serialized: when rewards (each record
\* rewarded once) and deductions for one user interleave, the committed row
\* is what a serial order gives: total_credits is the sum of the completed
\* records' amounts, used_credits the sum of the deductions, and
\* total_credits = used_credits + available_credits.
C13_CreditRowSerialized ==
  (\A i \in DOMAIN records : Cardinality(EarnedFor(i)) <= 1) =>
    \A u \in DOMAIN credits :
      /\ credits[u].total_credits = CompletedCents(records, u, Len(records))
      /\ credits[u].used_credits = UsedCents(ledger, u, Len(ledger))
      /\ credits[u].total_credits = credits[u].used_credits + credits[u].available_credits

\* C14: in every reachable state, a deduction for a user with available
\* credits and any invoice amount moves exactly the smaller of the two from
\* available_credits to used_credits, leaves total_credits and the other rows
\* alone, appends one 'used' transaction that references the invoice and goes
\* from the prior to the new available_credits, and reports that new balance.
C14_DeductionExact ==
  \A u \in DOMAIN credits, inv \in Invoices, cents \in InvoiceCents :
    credits[u].available_credits > 0 =>
      LET d == IF credits[u].available_credits <= cents
                 THEN credits[u].available_credits ELSE cents
          after == apply_credit_to_invoice(Referral, u, inv, cents, "ok")
          resp == apply_credit_to_invoice_resp(Referral, u, inv, cents, "ok") IN
      /\ after.credits[u].available_credits = credits[u].available_credits - d
      /\ after.credits[u].used_credits = credits[u].used_credits + d
      /\ after.credits[u].total_credits = credits[u].total_credits
      /\ \A v \in DOMAIN credits \ {u} : after.credits[v] = credits[v]
      /\ after.ledger =
           Append(ledger,
                  [user_id |-> u, transaction_type |-> "used", amount |-> d,
                   balance_before |-> credits[u].available_credits,
                   balance_after |-> credits[u].available_credits - d,
                   reference_id |-> inv])
      /\ after.records = records /\ after.codes = codes
      /\ resp.outcome = "success" /\ resp.amount = d
      /\ resp.balance = credits[u].available_credits - d

\* The deduction of 0.60 from a balance of 1.00 has been committed.
C14_Witness ==
  /\ last.op = "apply_credit" /\ last.outcome = "success"
  /\ last.amount = 60 /\ last.balance = 40
  /\ credits[last.user].available_credits = 40 /\ credits[last.user].used_credits = 60
  /\ ledger[Len(ledger)].transaction_type = "used"
  /\ ledger[Len(ledger)].balance_before = 100 /\ ledger[Len(ledger)].balance_after = 40

\* The 'used' ledger entries in creation order.
UsedEntries == SelectSeq(ledger, LAMBDA t : t.transaction_type = "used")

\* C15: in every reachable state the credit discounts the payment provider
\* holds and the committed 'used' ledger entries match one to one: no
\* discount without a recorded deduction, no recorded deduction without a
\* discount.
C15_DiscountsMatchLedger ==
  /\ Len(invoiceItems) = Len(UsedEntries)
  /\ \A k \in 1 .. Len(UsedEntries) :
       /\ k <= Len(invoiceItems)
       /\ invoiceItems[k].invoice = UsedEntries[k].reference_id
       /\ invoiceItems[k].amount = 0 - UsedEntries[k].amount

C17_NoSelfReferral ==
  /\ \A i \in DOMAIN records : records[i].referrer_user_id # records[i].referee_user_id
  /\ (last.op = "bind" /\ \E c \in codes : c.referral_code = last.kind /\ c.user_id = last.user)
       => last.outcome # "success"

\* A bind names an active, unexpired code of another user.
UsableCodeOfOther(cs, referral_code, user_id) ==
  \E c \in cs :
    /\ c.referral_code = referral_code /\ c.user_id # user_id
    /\ c.is_active /\ (c.expires_at = <<>> \/ c.expires_at[1] >= Now)

\* C18: a bind by a user whose current status is Pro (in either spelling the
\* handlers write) creates no record and is rejected, with the already-paid
\* error when the earlier checks pass, whichever handler made the user Pro.
C18_ProCannotBind ==
  [][\A U \in DOMAIN users :
       (/\ last'.op = "bind" /\ last'.user = U
        /\ users[U].subscription_status \in {"Pro", "pro"})
         => /\ records' = records
            /\ last'.outcome = "rejected"
            /\ (ExistingBinding(records, U) = {} /\ UsableCodeOfOther(codes, last'.kind, U))
                 => last'.reason = "Cannot bind referral code after subscription"]_vars

\* The already-paid error has answered a user that webhook-handle upgraded,
\* while another user is Pro through an Apple receipt.
C18_Witness ==
  /\ last.op = "bind" /\ last.reason = "Cannot bind referral code after subscription"
  /\ users[last.user].subscription_status = "pro"
  /\ \E v \in DOMAIN users :
       users[v].subscription_status = "Pro" /\ users[v].apple_customer_id # NULL

\* The code row is inactive, or its expires_at is non-null and in the past.
Unusable(c) == ~c.is_active \/ (c.expires_at # <<>> /\ c.expires_at[1] < Now)

\* C19: a bind whose code does not exist, is inactive, or has a non-null
\* expires_at in the past is rejected and creates no record, with the error of
\* the first code check that fails when the referee has no record yet; a code
\* whose expires_at is null is never answered as expired, and an active one
\* binds a registered, unpaid, unbound referee.
C19_BadCodeRejected ==
  [][last'.op = "bind" =>
       LET found == FindCode(codes, last'.kind)
           unbound == ExistingBinding(records, last'.user) = {} IN
       /\ (found = {} \/ \E c \in found : Unusable(c))
            => records' = records /\ last'.outcome = "rejected"
       /\ (unbound /\ found = {}) => last'.reason = "Invalid referral code"
       /\ \A c \in found :
            /\ (unbound /\ ~c.is_active) => last'.reason = "Referral code is inactive"
            /\ (unbound /\ c.is_active /\ Unusable(c)) => last'.reason = "Referral code has expired"
            /\ c.expires_at = <<>> => last'.reason # "Referral code has expired"
            /\ (/\ unbound /\ c.is_active /\ c.expires_at = <<>>
                /\ last'.user \in DOMAIN users
                /\ users[last'.user].subscription_status \notin {"Pro", "pro"})
                 => last'.outcome = "success" /\ Len(records') = Len(records) + 1]_vars

\* An expired code has been refused to a referee without a record, after a
\* code without expiry date was bound.
C19_Witness ==
  /\ last.op = "bind" /\ last.reason = "Referral code has expired"
  /\ ExistingBinding(records, last.user) = {}
  /\ \E i \in DOMAIN records : \E c \in FindCode(codes, records[i].referral_code) :
       c.expires_at = <<>>

\* C20: a handled billing event accepted by webhook-handle (direct user id),
\* paid-manager (email fingerprint) or the Apple notification endpoint
\* (provider customer id) whose lookup matches no user is answered
\* ignored/user_not_found and leaves every user row and quota row unchanged.
C20_MissingUserIgnored ==
  [][(/\ last'.op \in {"stripe_webhook", "stripe_paid", "apple_webhook"}
      /\ last'.outcome \notin {"rejected", "error"}
      /\ last'.op # "apple_webhook" => last'.kind \in HandledTypes
      /\ ~last'.found)
       => /\ last'.outcome = "ignored" /\ last'.reason = "user_not_found"
          /\ UNCHANGED billVars]_vars

\* The token does not have exactly three parts, or its middle part does not
\* decode to a JSON object.
BadToken(token) == token.nparts # 3 \/ ~token.decodable \/ token.doc = JsonScalar

\* The signed payload, or the signedTransactionInfo it carries, is such a token.
MalformedToken(signedPayload) ==
  IF BadToken(signedPayload) THEN TRUE
  ELSE signedPayload.doc.hasInfo /\ BadToken(signedPayload.doc.info)

\* C21: an Apple notification whose outer or inner token does not have three
\* parts, or whose middle part does not decode to a structured document, is
\* answered with the malformed-token error and changes no user, quota,
\* referral or credit state.
C21_MalformedTokenRejected ==
  [][\A signedPayload \in GoodPayloads \cup BadPayloads :
       (MalformedToken(signedPayload) /\ apple_webhook(signedPayload, 0))
         => /\ last' = Rejected("apple_webhook", "Invalid JWS token")
            /\ UNCHANGED <<billVars, refVars>>]_vars

\* C22: a referral record is appended pending; its status changes only from
\* pending to completed and only in a reward step; a completed record stays
\* completed; and credited_at is set exactly when the status is completed,
\* under every interleaving of bind and reward requests.
C22_RecordLifecycle ==
  [][/\ Len(records') >= Len(records)
     /\ \A i \in DOMAIN records' :
          /\ records'[i].credited_at <=> records'[i].status = "completed"
          /\ records'[i].status \in {"pending", "completed"}
          /\ i \notin DOMAIN records => records'[i].status = "pending"
          /\ i \in DOMAIN records =>
               /\ records[i].status = "completed" => records'[i].status = "completed"
               /\ records'[i].status # records[i].status =>
                    /\ records[i].status = "pending"
                    /\ last'.op = "reward" /\ last'.outcome = "success"
                    /\ \E p \in Procs : sess[p].pc = "reward_write" /\ sess'[p].pc = "idle"]_vars

\* A reward step has completed a record while another record is pending.
C22_Witness ==
  /\ last.op = "reward" /\ last.outcome = "success"
  /\ \E i, j \in DOMAIN records :
       /\ records[i].status = "completed" /\ records[i].credited_at
       /\ records[i].referee_user_id = last.user
       /\ records[j].status = "pending" /\ ~records[j].credited_at

\* No two user rows hold the same non-null apple_customer_id.
AppleIdUnique(us) ==
  \A u, v \in DOMAIN us :
    (u # v /\ us[u].apple_customer_id # NULL) => us[u].apple_customer_id # us[v].apple_customer_id

\* C23: under every interleaving of receipt verifications no two user rows
\* hold the same apple_customer_id, and a verification answered "already
\* linked to another account" changes no row.
C23_AppleIdUnique ==
  [][/\ AppleIdUnique(users')
     /\ (/\ last'.op = "verify_receipt"
         /\ last'.reason = "This purchase is already linked to another account")
          => UNCHANGED billVars]_vars

\* C24: after any sequence of webhook-handle and paid-manager events no two
\* user rows hold the same non-null stripe_customer_id.
C24_StripeIdUnique ==
  \A u, v \in DOMAIN users :
    (u # v /\ users[u].stripe_customer_id # NULL)
      => users[u].stripe_customer_id # users[v].stripe_customer_id

\* C25: in every reachable state every user's subscription_status is one of
\* Free, Pro, Expired, Refunded, whichever operation wrote it.
C25_StatusDomain ==
  \A u \in DOMAIN users :
    users[u].subscription_status \in {"Free", "Pro", "Expired", "Refunded"}

\* C26: a reward step for a referee whose user row is missing or holds another
\* stripe_customer_id than the one supplied changes no credit row, ledger
\* entry or referral record and is answered as a no-op, with reason
\* user_not_pro when the referee has a pending record.
C26_RewardNeedsMatchingUser ==
  [][(/\ last'.op = "reward" /\ last'.user # NULL
      /\ \/ last'.user \notin DOMAIN users
         \/ users[last'.user].stripe_customer_id # last'.kind)
       => /\ UNCHANGED refVars
          /\ last'.outcome = "noop"
          /\ PendingRecords(records, last'.user) # {} => last'.reason = "user_not_pro"]_vars

\* A referee whose account was deleted after binding has been answered
\* user_not_pro.
C26_Witness ==
  /\ last.op = "reward" /\ last.reason = "user_not_pro"
  /\ last.user \notin DOMAIN users
  /\ PendingRecords(records, last.user) # {}

\* C27: a deduction for a user without a credit row, or whose
\* available_credits is zero, is answered applied = false with reason
\* no_credits, adds no invoice item at the provider, and changes no credit
\* row and no ledger entry.
C27_NoCreditsNoop ==
  [][(/\ last'.op = "apply_credit" /\ last'.user # NULL
      /\ \/ last'.user \notin DOMAIN credits
         \/ credits[last'.user].available_credits = 0)
       => /\ last'.outcome = "noop" /\ last'.reason = "no_credits"
          /\ UNCHANGED <<refVars, invoiceItems>>]_vars

\* A user who spent every credit has been answered no_credits.
C27_Witness ==
  /\ last.op = "apply_credit" /\ last.reason = "no_credits"
  /\ last.user \in DOMAIN credits
  /\ credits[last.user].available_credits = 0
  /\ credits[last.user].used_credits > 0

\* C28: every code generate_referral_code returns has exactly 6 characters,
\* each an uppercase letter or a digit, and none of 0, O, 1, I, L.
C28_CodeAlphabet ==
  last.op = "generate_referral_code" =>
    /\ Len(last.kind) = 6
    /\ \A i \in DOMAIN last.kind :
         /\ \E k \in DOMAIN (ascii_uppercase \o digits) :
              last.kind[i] = (ascii_uppercase \o digits)[k]
         /\ last.kind[i] \notin {"0", "O", "1", "I", "L"}

\* C29: under every interleaving of my-code requests each user owns at most
\* one code and no two codes share a code string; stored codes stay as they
\* are; and a request for a user who has a code returns that code and changes
\* nothing.
C29_OneCodePerUser ==
  [][/\ \A c, d \in codes' :
          (c.user_id = d.user_id \/ c.referral_code = d.referral_code) => c = d
     /\ codes \subseteq codes'
     /\ \A p \in Procs, user_id \in Users :
          (CodeOfUser(codes, user_id) # {} /\ my_select_existing(p, user_id))
            => /\ last'.outcome = "success" /\ last'.found
               /\ \E c \in CodeOfUser(codes, user_id) : last'.kind = c.referral_code
               /\ UNCHANGED refVars]_vars

\* A request that lost the race for its user's code has been refused, and
\* both users own a code.
C29_Witness ==
  /\ last.op = "my_code" /\ last.reason = "IntegrityError"
  /\ \A u \in Users : Cardinality(CodeOfUser(codes, u)) = 1

\* C30: the answer that decides a receipt verification is the sandbox
\* endpoint's when the production endpoint answered 21007 and the production
\* endpoint's otherwise; a deciding status other than 0 is a verification
\* failure that changes no user or quota row, and a deciding status 0 is not.
C30_SandboxOnly21007 ==
  [][\A user_id \in Users, production \in AppleAnswers, sandbox \in AppleAnswers :
       verify_receipt(user_id, production, sandbox, 0) =>
         LET final == IF production.status = 21007 THEN sandbox ELSE production IN
         /\ final.status # 0 =>
              /\ last' = Rejected("verify_receipt", "Apple receipt verification failed")
              /\ UNCHANGED billVars
         /\ final.status = 0 => last'.reason # "Apple receipt verification failed"
         /\ (/\ final.status = 0 /\ final.hasInfo /\ final.otid # NULL
             /\ AppleRows(Billing, final.otid) = {} /\ user_id \in DOMAIN users)
              => /\ last'.outcome = "success"
                 /\ users'[user_id].apple_customer_id = final.otid]_vars

\* A verification has failed on the provider's status while another user's
\* purchase is linked.
C30_Witness ==
  /\ last = Rejected("verify_receipt", "Apple receipt verification failed")
  /\ \E u, v \in DOMAIN users :
       u # v /\ users[u].apple_customer_id # NULL /\ users[v].apple_customer_id = NULL

\* The notification decodes, and carries no signedTransactionInfo or a
\* transaction without originalTransactionId.
NoTransactionId(signedPayload) ==
  /\ ~MalformedToken(signedPayload)
  /\ \/ ~signedPayload.doc.hasInfo
     \/ signedPayload.doc.info.doc.originalTransactionId = NULL

\* C31: a webhook-handle request with a missing or invalid signature or
\* without metadata user_id, a paid-manager event without customer_email, and
\* an Apple notification without transaction info or originalTransactionId
\* are answered with a client error and change no user, quota, referral or
\* credit state.
C31_InvalidRequestsRejected ==
  [][/\ last'.op = "stripe_webhook" =>
          \A e \in {w \in WebhookEvents : w.sig # "valid" \/ w.user_id = NULL} :
            stripe_webhook(e.sig, e.user_id, e.event_type, e.cust, e.fail)
              => /\ last'.outcome = "rejected"
                 /\ UNCHANGED <<billVars, refVars>>
     /\ last'.op = "stripe_paid" =>
          \A e \in {w \in PaidEvents : w.customer_email = NULL} :
            stripe_paid_process(e.customer_email, e.event_type, e.cust, e.fail)
              => /\ last' = Rejected("stripe_paid", "customer_email is missing")
                 /\ UNCHANGED <<billVars, refVars>>
     /\ last'.op = "apple_webhook" =>
          \A e \in {w \in AppleEvents : NoTransactionId(w.signedPayload)} :
            apple_webhook(e.signedPayload, e.fail)
              => /\ last'.outcome = "rejected"
                 /\ last'.reason \in {"Missing transaction info", "Missing originalTransactionId"}
                 /\ UNCHANGED <<billVars, refVars>>]_vars

\* A webhook with an invalid signature has been rejected while a user row
\* exists that its event would have upgraded.
C31_Witness ==
  /\ last = Rejected("stripe_webhook", "Invalid signature")
  /\ "u1" \in DOMAIN users
  /\ users["u1"].subscription_status # "pro"

\* The step is a renewal event that found user u: an Apple DID_RENEW or
\* SUBSCRIBED notification, or a Stripe invoice.payment_succeeded through one
\* of the handlers in ops.
RenewalFor(u, ops) ==
  /\ last'.user = u /\ last'.found /\ last'.outcome = "success"
  /\ \/ last'.op = "apple_webhook" /\ last'.kind \in {"DID_RENEW", "SUBSCRIBED"}
     \/ last'.op \in ops /\ last'.kind = "invoice.payment_succeeded"

\* C32: a renewal event for a user whose status is Expired or Refunded leaves
\* that user Pro with both quota limits 100.
C32_RenewalReturnsToPro ==
  [][\A u \in DOMAIN users :
       (/\ users[u].subscription_status \in {"Expired", "Refunded"}
        /\ RenewalFor(u, {"stripe_webhook", "stripe_paid"}))
         => /\ users'[u].subscription_status = "Pro"
            /\ quotaReq'[u] = 100 /\ quotaRec'[u] = 100]_vars

\* C33: a step of webhook-handle, paid-manager, the Apple notification
\* handler, receipt verification, bind or my-code changes no credit row and no
\* credit transaction; a step of bind, reward or deduction changes no user's
\* subscription_status or provider customer ids and no quota limit.
C33_WriteOwnership ==
  [][/\ last'.op \in {"stripe_webhook", "stripe_paid", "apple_webhook", "verify_receipt",
                       "bind", "my_code"}
          => UNCHANGED <<credits, ledger>>
     /\ last'.op \in {"bind", "reward", "apply_credit"} => UNCHANGED billVars]_vars

\* A deduction has been applied for a referrer while the referee who paid is
\* Pro with both limits raised and the referrer's own row is as the sync
\* wrote it.
C33_Witness ==
  /\ last.op = "apply_credit" /\ last.outcome = "success"
  /\ \E v \in DOMAIN users :
       v # last.user /\ users[v].subscription_status = "Pro" /\ quotaReq[v] = 100
  /\ last.user \in DOMAIN users
  /\ users[last.user].subscription_status = "free"

\* C34: an event of an unrecognized kind that finds its user (a Stripe type
\* other than the two handled ones, an Apple notificationType outside the five
\* known ones) is not answered as an error and leaves that user's
\* subscription_status and both quota limits as they were.
C34_UnknownKindKeepsState ==
  [][\A u \in DOMAIN users :
       (/\ last'.user = u /\ last'.found
        /\ \/ /\ last'.op \in {"stripe_webhook", "stripe_paid"}
              /\ last'.kind \in StripeTypes \ HandledTypes
           \/ /\ last'.op = "apple_webhook"
              /\ last'.kind \in NotificationTypes \
                   {"DID_RENEW", "SUBSCRIBED", "EXPIRED", "REFUND", "DID_CHANGE_RENEWAL_STATUS"})
         => /\ last'.outcome \notin {"error", "rejected"}
            /\ users'[u].subscription_status = users[u].subscription_status
            /\ quotaReq'[u] = quotaReq[u] /\ quotaRec'[u] = quotaRec[u]]_vars

\* C35: whenever a reward step answers processed = true, the referee's
\* subscription_status is Pro at that moment (in either spelling the handlers
\* write).
C35_RewardOnlyForPro ==
  [][(last'.op = "reward" /\ last'.outcome = "success")
       => /\ last'.user \in DOMAIN users
          /\ IsProLower(users[last'.user].subscription_status)]_vars

\* apple_customer_id is written only by receipt verification, in the UPDATE
\* that sets the status to Pro: a user holding one has been Pro.
HasBeenPro(u) == u \in DOMAIN users /\ users[u].apple_customer_id # NULL

\* C36: every bind for a user who has once been made Pro is rejected and
\* creates no record, also when the user is Free, Expired or Refunded by now.
C36_NoBindAfterFirstPayment ==
  [][(last'.op = "bind" /\ HasBeenPro(last'.user))
       => last'.outcome = "rejected" /\ records' = records]_vars

\* The discounts created at the payment provider, in cents.
RECURSIVE DiscountCents(_, _)
DiscountCents(items, n) ==
  IF n = 0 THEN 0 ELSE DiscountCents(items, n - 1) + (0 - items[n].amount)

\* The sum of f[u].field over the users in S.
RECURSIVE SumCredits(_, _, _)
SumCredits(cr, S, field) ==
  IF S = {} THEN 0
  ELSE LET u == CHOOSE x \in S : TRUE IN cr[u][field] + SumCredits(cr, S \ {u}, field)

\* C37: under every interleaving of deduction calls the discounts created at
\* the provider never exceed the credits the users have earned, no balance
\* goes below zero, and once no call is in flight the discounts equal the
\* used credits.
C37_NoDoubleSpend ==
  /\ DiscountCents(invoiceItems, Len(invoiceItems))
       <= SumCredits(credits, DOMAIN credits, "total_credits")
  /\ \A u \in DOMAIN credits : credits[u].available_credits >= 0
  /\ (\A p \in Procs : sess[p].pc = "idle")
       => DiscountCents(invoiceItems, Len(invoiceItems))
            = SumCredits(credits, DOMAIN credits, "used_credits")

\* C38: in every reachable state, for every user and each of the two handled
\* event types, webhook-handle addressed by the user's id and paid-manager
\* addressed by the user's email leave that user the same subscription_status
\* and the same two quota limits.
C38_StripeHandlersAgree ==
  \A u \in DOMAIN users, event_type \in HandledTypes, cust \in CustIds :
    LET byId == stripe_webhook_effect(Billing, "valid", u, event_type, cust, 0)
        byEmail == stripe_paid_process_effect(Billing, EmailOf(u), event_type, cust, 0) IN
    /\ byId.users[u].subscription_status = byEmail.users[u].subscription_status
    /\ byId.quotaReq[u] = byEmail.quotaReq[u]
    /\ byId.quotaRec[u] = byEmail.quotaRec[u]

\* The amounts of the first n ledger entries that are 'earned' entries of user u.
RECURSIVE EarnedCents(_, _, _)
EarnedCents(txns, u, n) ==
  IF n = 0 THEN 0
  ELSE EarnedCents(txns, u, n - 1)
         + (IF txns[n].user_id = u /\ txns[n].transaction_type = "earned"
              THEN txns[n].amount ELSE 0)

\* C39: ledger conservation: after any sequence of reward and deduction
\* operations, for every user total_credits (0 without a credit row) equals
\* the sum of the credit_amount of the completed records naming the user as
\* referrer, which equals the sum of the user's 'earned' transaction
\* amounts, and available_credits equals the 'earned' sum minus the 'used'
\* sum.
C39_LedgerConservation ==
  \A u \in Users :
    LET completed == CompletedCents(records, u, Len(records))
        earned == EarnedCents(ledger, u, Len(ledger))
        used == UsedCents(ledger, u, Len(ledger)) IN
    /\ completed = earned
    /\ (IF u \in DOMAIN credits THEN credits[u].total_credits ELSE 0) = completed
    /\ (IF u \in DOMAIN credits THEN credits[u].available_credits ELSE 0) = earned - used

\* A referrer was rewarded twice and then spent part of the credit in two
\* deductions: two 'earned' and two 'used' entries stand in the ledger.
C39_Witness ==
  \E u \in DOMAIN credits :
    /\ EarnedCents(ledger, u, Len(ledger)) = 2 * RewardCents
    /\ Cardinality({k \in DOMAIN ledger :
                      ledger[k].user_id = u /\ ledger[k].transaction_type = "used"}) = 2
    /\ credits[u].available_credits > 0

====
